---- MODULE Spec2Model ----
(***************************************************************************)
(* Book rendering for a quarto project: the freezer (incremental execution *)
(* cache), the accumulation of executed files per format                   *)
(* (bookPandocRenderer), the merge of executed files for single-file       *)
(* formats (mergeExecutedFiles) and the cleanup of intermediates.          *)
(*                                                                         *)
(* Strings that the code builds by concatenation are sequences of tokens;  *)
(* every token is a triple of strings so that two markdown texts are equal *)
(* exactly when they are made of the same pieces in the same order.  Paths *)
(* are sequences of path segments.                                         *)
(***************************************************************************)
EXTENDS Integers, Sequences, FiniteSets, TLC

(***************************************************************************)
(* Bounds of the model.                                                    *)
(***************************************************************************)
MaxInFlight == 1
MaxSteps == 4

None == "none"

\* an item without a backing document has no file (the empty path)
NoFile == << >>

(***************************************************************************)
(* The project: its directory, the documents and the formats.              *)
(***************************************************************************)
ProjectDir == <<"proj">>

IndexFile == <<"index.qmd">>
IntroFile == <<"intro.qmd">>
ApxFile == <<"appendices", "apx-a.qmd">>

Docs == {IndexFile, IntroFile, ApxFile}

Formats == {"html", "pdf"}

\* format.extensions.book.renderFile is defined for html, undefined for pdf
HasRenderFile(format) == format \in {"html", "asciidoc"}

\* isHtmlOutput(format.pandoc)
isHtmlOutput(format) == format = "html"

\* bookItems(project.dir, project.config): the flattened book items of
\* the project configuration, in book order
BookItems ==
  << [type |-> "index", file |-> IndexFile, text |-> None],
     [type |-> "part", file |-> NoFile, text |-> "Basics"],
     [type |-> "chapter", file |-> IntroFile, text |-> None],
     [type |-> "appendix", file |-> NoFile, text |-> "Appendices"],
     [type |-> "chapter", file |-> ApxFile, text |-> None] >>

(***************************************************************************)
(* Paths (path/mod.ts: join, dirname, relative).                           *)
(***************************************************************************)
join(dir, file) == dir \o file

dirname(path) == SubSeq(path, 1, Len(path) - 1)

relative(from, to) ==
  IF Len(to) >= Len(from) /\ SubSeq(to, 1, Len(from)) = from
  THEN SubSeq(to, Len(from) + 1, Len(to))
  ELSE to

\* inputFilesDir(input): the "<stem>_files" directory next to the input
inputFilesDir(input) ==
  LET name == input[Len(input)]
  IN CASE name = "index.qmd" -> "index_files"
       [] name = "intro.qmd" -> "intro_files"
       [] name = "apx-a.qmd" -> "apx-a_files"
       [] OTHER -> "_files"

(***************************************************************************)
(* The Execution Adapter: the result of executing a document.  The         *)
(* markdown carries the document and the version of its source; the        *)
(* supporting files live in the document's files dir, and the two chapters *)
(* also share a project level resource.                                    *)
(***************************************************************************)
Versions == {"v1", "v2"}

SharedResource == join(ProjectDir, <<"shared.css">>)

FilesDir(input) == join(dirname(input), <<inputFilesDir(input)>>)

Supporting(doc) ==
  IF doc = IndexFile THEN << >>
  ELSE << join(FilesDir(join(ProjectDir, doc)), <<"figure-1.png">>), SharedResource >>

\* the options of a format: toc changes the rendered output, verbose
\* changes only the logging
OptionValues == {"on", "off"}

FormatOptions == [toc : OptionValues, verbose : OptionValues]

\* the pandoc filters the result of a document asks for
Filters(doc) ==
  CASE doc = IndexFile -> <<"quarto">>
    [] doc = IntroFile -> <<"quarto", "bokeh">>
    [] OTHER -> <<"bokeh">>

\* executeResult.dependencies: undefined (<< >>) for the index, else the
\* dependency declarations of the document
Dependencies(doc) ==
  CASE doc = IndexFile -> << >>
    [] doc = IntroFile ->
         << [type |-> "dependencies", data |-> <<"jquery", "plotly">>] >>
    [] OTHER -> << [type |-> "dependencies", data |-> <<"jquery">>] >>

\* the preserved blocks of the result of a document: a map from a token to
\* the block it stands for; the two chapters use one token in common
Preserve(doc) ==
  CASE doc = IndexFile -> [k \in {} |-> ""]
    [] doc = IntroFile -> [k \in {"preserve-1"} |-> "intro block"]
    [] OTHER -> [k \in {"preserve-1", "preserve-2"} |->
                   IF k = "preserve-1" THEN "apx block" ELSE "apx table"]

ExecuteResult(doc, version, opts) ==
  [markdown |-> << <<"markdown", doc, <<version, opts.toc>> >> >>,
   supporting |-> Supporting(doc),
   filters |-> Filters(doc),
   dependencies |-> Dependencies(doc),
   preserve |-> Preserve(doc)]

OutputExt(format) ==
  CASE format = "pdf" -> "pdf"
    [] format = "asciidoc" -> "adoc"
    [] OTHER -> "html"

\* the keys that withBookTitleMetadata sets
BookConfigKeys == {"title", "subtitle", "author", "date", "abstract"}

\* format.metadata of a document: what its front matter sets (None: unset),
\* the table of contents the project asks for, and no chapter number
\* (<< >>: unset)
ChapterMetadata(doc) ==
  CASE doc = IndexFile ->
         [title |-> "Preface", subtitle |-> None, author |-> None,
          date |-> None, abstract |-> None,
          toc |-> TRUE, chapterNumber |-> << >>]
    [] doc = IntroFile ->
         [title |-> "Introduction", subtitle |-> "A first look",
          author |-> "A. Chapter", date |-> "2020-01-01", abstract |-> None,
          toc |-> TRUE, chapterNumber |-> << >>]
    [] OTHER ->
         [title |-> "Appendix A", subtitle |-> None, author |-> None,
          date |-> None, abstract |-> None,
          toc |-> TRUE, chapterNumber |-> << >>]

\* a faulty variant of onBeforeExecute: dependencies are always resolved
\* immediately
onBeforeExecuteAlways(format) == [resolveDependencies |-> TRUE]

\* onBeforeExecute(format): if we render a file at a time then resolve
\* dependencies immediately
onBeforeExecute(format) == [resolveDependencies |-> HasRenderFile(format)]

\* the ExecutedFile handed to onRender for a document and a format;
\* output is recipe.output, outputFile is context.format.pandoc[kOutputFile]
\* (<< >>: unset), metadata is the metadata of the format, and
\* resolveDependencies is what onBeforeExecute told the execution to do
ExecutedFile(doc, format, executeResult) ==
  [input |-> join(ProjectDir, doc),
   format |-> format,
   output |-> join(ProjectDir, doc) \o <<OutputExt(format)>>,
   outputFile |-> << >>,
   metadata |-> ChapterMetadata(doc),
   resolveDependencies |-> onBeforeExecute(format).resolveDependencies,
   executeResult |-> executeResult]

(***************************************************************************)
(* mergeExecutedFiles and its helpers.                                     *)
(***************************************************************************)
\* files.find((file) => file.context.target.input === itemInputPath):
\* the index of the first match, 0 when there is none
RECURSIVE FindFrom(_, _, _)
FindFrom(files, itemInputPath, i) ==
  IF i > Len(files) THEN 0
  ELSE IF files[i].input = itemInputPath THEN i
  ELSE FindFrom(files, itemInputPath, i + 1)

FindFile(files, itemInputPath) == FindFrom(files, itemInputPath, 1)

\* the metadata comment written in front of each item's markdown; the
\* optional file is << >> or <<file>>
bookItemMetadata(item, file) ==
  LET resourceDir == IF file = << >> THEN << >>
                     ELSE relative(ProjectDir, dirname(file[1].input))
  IN << <<"quarto-file-metadata", item.type,
          IF resourceDir = << >> THEN <<".">> ELSE resourceDir>> >>

bookPartMarkdown(item) ==
  bookItemMetadata(item, << >>) \o << <<"heading", item.text, "">> >>

BookPartOpen == <<"div-open", ".quarto-book-part", "">>
BookPartClose == <<"div-close", "", "">>

\* a faulty variant of PartDiv: the heading of an appendix is surrounded too
PartDivForAppendixToo(item, itemMarkdown) ==
  IF (item.type = "part" \/ (item.type = "appendix" /\ item.file = NoFile))
     /\ Len(itemMarkdown) > 0
  THEN <<BookPartOpen>> \o itemMarkdown \o <<BookPartClose>>
  ELSE itemMarkdown

\* the part divider is surrounded by a special div
PartDiv(item, itemMarkdown) ==
  IF item.type = "part" /\ Len(itemMarkdown) > 0
  THEN <<BookPartOpen>> \o itemMarkdown \o <<BookPartClose>>
  ELSE itemMarkdown

\* the markdown of an item; found is the index of its executed file, 0
\* when there is none
FoundMarkdown(item, files, found) ==
  IF item.file # NoFile
  THEN IF found # 0
       THEN bookItemMetadata(item, <<files[found]>>)
              \o files[found].executeResult.markdown
       ELSE << >>
  ELSE IF item.type = "part" \/ item.type = "appendix"
       THEN bookPartMarkdown(item)
       ELSE << >>

\* the executed file of an item: files.find by the input path
FoundFile(item, files) ==
  IF item.file = NoFile THEN 0
  ELSE FindFile(files, join(ProjectDir, item.file))

\* a faulty variant of ItemMarkdown: an item whose executed file is missing is
\* skipped instead of throwing
ItemMarkdownSkippingMissing(item, files, found) ==
  [threw |-> FALSE,
   markdown |-> PartDiv(item, FoundMarkdown(item, files, found))]

\* the body of the reduce callback: the markdown of one item, or a throw
ItemMarkdown(item, files, found) ==
  [threw |-> item.file # NoFile /\ found = 0,
   markdown |-> PartDiv(item, FoundMarkdown(item, files, found))]

\* a faulty variant of MergeMarkdown: the executed files are walked in the order in
\* which they were recorded
ItemOfFile(bookItems, file) ==
  bookItems[CHOOSE n \in 1..Len(bookItems) :
              bookItems[n].file # NoFile
              /\ join(ProjectDir, bookItems[n].file) = file.input]

RECURSIVE MergeInArrivalOrder(_, _, _, _)
MergeInArrivalOrder(bookItems, files, i, markdown) ==
  IF i > Len(files)
  THEN [threw |-> \E k \in 1..Len(bookItems) :
                    bookItems[k].file # NoFile
                    /\ FoundFile(bookItems[k], files) = 0,
        markdown |-> markdown]
  ELSE MergeInArrivalOrder(bookItems, files, i + 1,
         markdown \o bookItemMetadata(ItemOfFile(bookItems, files[i]), <<files[i]>>)
                  \o files[i].executeResult.markdown)

\* items.reduce(...): the items are walked in book order
RECURSIVE MergeMarkdown(_, _, _, _)
RECURSIVE MergeItem(_, _, _, _, _)
MergeMarkdown(bookItems, files, i, markdown) ==
  IF i > Len(bookItems) THEN [threw |-> FALSE, markdown |-> markdown]
  ELSE MergeItem(bookItems, files, i, markdown,
         ItemMarkdown(bookItems[i], files, FoundFile(bookItems[i], files)))

\* one step of the reduce: the callback threw, or its markdown is appended
MergeItem(bookItems, files, i, markdown, item) ==
  IF item.threw THEN [threw |-> TRUE, markdown |-> << >>]
  ELSE MergeMarkdown(bookItems, files, i + 1, markdown \o item.markdown)

\* ld.uniq: the first occurrence of every element, in order
RECURSIVE Uniq(_)
Uniq(seq) ==
  IF seq = << >> THEN << >>
  ELSE LET front == Uniq(SubSeq(seq, 1, Len(seq) - 1))
           last == seq[Len(seq)]
       IN IF \E i \in 1..Len(front) : front[i] = last
          THEN front ELSE Append(front, last)

RECURSIVE MapRelative(_)
MapRelative(paths) ==
  IF paths = << >> THEN << >>
  ELSE <<relative(ProjectDir, Head(paths))>> \o MapRelative(Tail(paths))

\* a faulty variant of MergeSupporting: the lists are concatenated as they are
RECURSIVE MergeSupportingKeepingDuplicates(_, _)
MergeSupportingKeepingDuplicates(files, supporting) ==
  IF files = << >> THEN supporting
  ELSE MergeSupportingKeepingDuplicates(Tail(files),
         supporting \o MapRelative(Head(files).executeResult.supporting))

RECURSIVE MergeSupporting(_, _)
MergeSupporting(files, supporting) ==
  IF files = << >> THEN supporting
  ELSE MergeSupporting(Tail(files),
         Uniq(supporting \o MapRelative(Head(files).executeResult.supporting)))

\* files.flatMap((file) => file.executeResult.filters)
RECURSIVE FlatFilters(_)
FlatFilters(files) ==
  IF files = << >> THEN << >>
  ELSE Head(files).executeResult.filters \o FlatFilters(Tail(files))

\* file.executeResult.dependencies?.data || []
DependencyData(file) ==
  IF file.executeResult.dependencies = << >> THEN << >>
  ELSE file.executeResult.dependencies[1].data

\* files.reduce: the dependencies of the files, concatenated in the order
\* of the array
RECURSIVE MergeDependencies(_, _)
MergeDependencies(files, dependencies) ==
  IF files = << >> THEN dependencies
  ELSE MergeDependencies(Tail(files), dependencies \o DependencyData(Head(files)))

\* { ...preserve, ...file.executeResult.preserve }
Spread(preserve, other) ==
  [k \in DOMAIN preserve \cup DOMAIN other |->
     IF k \in DOMAIN other THEN other[k] ELSE preserve[k]]

\* files.reduce: the preserves of the files, spread in the order of the array
RECURSIVE MergePreserve(_, _)
MergePreserve(files, preserve) ==
  IF files = << >> THEN preserve
  ELSE MergePreserve(Tail(files),
                     Spread(preserve, Head(files).executeResult.preserve))

\* what mergeExecutedFiles writes to the log as a warning: it makes no call
\* that logs
MergeWarnings(files) == << >>

\* the title of the book configuration names the output file
BookTitle == <<"My Book">>

\* bookConfig(key, project.config): the book sets its title and its author
bookConfig(key) ==
  CASE key = "title" -> BookTitle[1]
    [] key = "author" -> "B. Author"
    [] OTHER -> None

\* a faulty variant of MergedContext: the context of the first file is used
\* without a copy, so what is set on it shows in the first file
MergedContextShared(files) ==
  [outputFile |-> BookTitle \o <<OutputExt(files[1].format)>>,
   files |-> [files EXCEPT ![1].outputFile =
                BookTitle \o <<OutputExt(files[1].format)>>]]

\* context = ld.cloneDeep(files[0].context), and the output file set on the
\* copy from the book title; files is the array after that
MergedContext(files) ==
  [outputFile |-> BookTitle \o <<OutputExt(files[1].format)>>,
   files |-> files]

\* the ExecutedFile composed by mergeExecutedFiles, or its throw; files is
\* the array passed in, as it is after the call
MergedFile(files, merged) ==
  [threw |-> merged.threw,
   warnings |-> MergeWarnings(files),
   files |-> MergedContext(files).files,
   executedFile |->
     [input |-> files[1].input,
      format |-> files[1].format,
      output |-> MergedContext(files).outputFile,
      outputFile |-> MergedContext(files).outputFile,
      metadata |-> files[1].metadata,
      executeResult |->
        [markdown |-> merged.markdown,
         supporting |-> MergeSupporting(files, << >>),
         filters |-> Uniq(FlatFilters(files)),
         dependencies |->
           << [type |-> "dependencies",
               data |-> MergeDependencies(files, << >>)] >>,
         preserve |-> MergePreserve(files, [k \in {} |-> ""])]]]

mergeExecutedFiles(bookItems, files) ==
  MergedFile(files, MergeMarkdown(bookItems, files, 1, << >>))

(***************************************************************************)
(* The freezer: one slot per document and format, holding at most one      *)
(* entry (the empty sequence is an empty slot).                            *)
(***************************************************************************)
Policies == {"never", "auto", "always"}

Pairs == Docs \X Formats

\* a faulty variant of Fingerprint: every option enters the digest
FingerprintOfEveryOption(version, opts) == <<version, opts.toc, opts.verbose>>

\* a faulty variant of Fingerprint: the source content does not enter the digest
FingerprintOfOptionsOnly(version, opts) == <<"", opts.toc>>

\* the digest of the source content and of the options that change the
\* rendered output
Fingerprint(version, opts) == <<version, opts.toc>>

\* the resource files of a result, as a set
ResourceFiles(result) ==
  {result.supporting[i] : i \in 1..Len(result.supporting)}

\* an entry can be read when every resource file of its result is in the
\* cache-owned storage
Readable(entry) == entry.resources = ResourceFiles(entry.result)

\* a faulty variant of Lookup: always compares the fingerprints as auto does
LookupAlwaysAsAuto(fz, doc, format, fingerprint, pol) ==
  LET slot == fz[<<doc, format>>]
  IN IF pol = "never" \/ slot = << >> \/ ~Readable(slot[1]) THEN << >>
     ELSE IF slot[1].fingerprint = fingerprint
          THEN <<slot[1].result>>
          ELSE << >>

\* a faulty variant of Lookup: never uses a matching entry as auto does
LookupNeverAsAuto(fz, doc, format, fingerprint, pol) ==
  LET slot == fz[<<doc, format>>]
  IN IF slot = << >> \/ ~Readable(slot[1]) THEN << >>
     ELSE IF pol = "always" \/ slot[1].fingerprint = fingerprint
          THEN <<slot[1].result>>
          ELSE << >>

\* a faulty variant of Lookup: an entry is used without looking at its
\* resource files
LookupTrustingEntry(fz, doc, format, fingerprint, pol) ==
  LET slot == fz[<<doc, format>>]
  IN IF pol = "never" \/ slot = << >> THEN << >>
     ELSE IF pol = "always" \/ slot[1].fingerprint = fingerprint
          THEN <<slot[1].result>>
          ELSE << >>

\* << >> is absent, <<result>> a hit; an entry that cannot be read is a miss
Lookup(fz, doc, format, fingerprint, pol) ==
  LET slot == fz[<<doc, format>>]
  IN IF pol = "never" \/ slot = << >> \/ ~Readable(slot[1]) THEN << >>
     ELSE IF pol = "always" \/ slot[1].fingerprint = fingerprint
          THEN <<slot[1].result>>
          ELSE << >>

\* the entry of a result with the resource files copied so far
Entry(fingerprint, result, resources) ==
  [fingerprint |-> fingerprint, result |-> result, resources |-> resources]

\* store as a whole: the slot holds the entry with all its resource files
Store(fz, doc, format, fingerprint, result) ==
  [fz EXCEPT ![<<doc, format>>] =
     << Entry(fingerprint, result, ResourceFiles(result)) >>]

Invalidate(fz, doc, format) == [fz EXCEPT ![<<doc, format>>] = << >>]

\* the directory of a slot in the project's _freeze directory
FreezeDir(doc, format) == join(ProjectDir, <<"_freeze">> \o doc \o <<format>>)

IsPrefix(dir, path) ==
  Len(dir) <= Len(path) /\ SubSeq(path, 1, Len(dir)) = dir

\* the freezer after the directories in removed were deleted from the disk
RemoveDirs(fz, removed) ==
  [p \in DOMAIN fz |->
     IF \E dir \in removed : IsPrefix(dir, FreezeDir(p[1], p[2]))
     THEN << >> ELSE fz[p]]

(***************************************************************************)
(* Cleanup.  An entry of the log is one call that onComplete made.         *)
(***************************************************************************)
LogEntry(op, file, finalOutput, removed, ok) ==
  [op |-> op, file |-> file, finalOutput |-> finalOutput,
   removed |-> removed, ok |-> ok]

\* a faulty variant of cleanupExecutedFile: the frozen copy of the files dir is
\* removed as well
cleanupExecutedFileAndFrozen(file, finalOutput) ==
  LogEntry("cleanup", file, finalOutput,
           IF Len(file.executeResult.supporting) > 0
           THEN {FilesDir(file.input),
                 FreezeDir(relative(ProjectDir, file.input), file.format)}
           ELSE {},
           TRUE)

\* the renderCleanup call: the files dir is removed when the file has
\* supporting files
cleanupExecutedFile(file, finalOutput) ==
  LogEntry("cleanup", file, finalOutput,
           IF Len(file.executeResult.supporting) > 0
           THEN {FilesDir(file.input)} ELSE {},
           TRUE)

RECURSIVE CleanupEach(_, _)
CleanupEach(files, finalOutput) ==
  IF files = << >> THEN << >>
  ELSE <<cleanupExecutedFile(Head(files),
           IF finalOutput = << >> THEN Head(files).output ELSE finalOutput)>>
       \o CleanupEach(Tail(files), finalOutput)

\* a faulty variant of cleanupExecutedFiles: only the first format is cleaned up
CleanupFirstFormatOnly(keys, fileMap) ==
  IF keys = << >> THEN << >> ELSE CleanupEach(fileMap[Head(keys)], << >>)

\* cleanupExecutedFiles: every file of every format still accumulated
RECURSIVE cleanupExecutedFiles(_, _)
cleanupExecutedFiles(keys, fileMap) ==
  IF keys = << >> THEN << >>
  ELSE CleanupEach(fileMap[Head(keys)], << >>)
       \o cleanupExecutedFiles(Tail(keys), fileMap)

RECURSIVE RemovedBy(_)
RemovedBy(entries) ==
  IF entries = << >> THEN {}
  ELSE (IF Head(entries).op = "cleanup" THEN Head(entries).removed ELSE {})
       \cup RemovedBy(Tail(entries))

(***************************************************************************)
(* Rendering.  The external renderers (extension.renderFile, renderPandoc) *)
(* either return a RenderedFile or throw; failAt numbers the call that     *)
(* throws, counting the calls of one onComplete from 1 (0: none throws).   *)
(* A render returns [threw, rendered, log, calls, files].                  *)
(***************************************************************************)
RenderedFile(file) == [file |-> file.output, format |-> file.format]

\* withBookTitleMetadata on a copy of the format: a key is set when the
\* book configuration has a value for it
withBookTitleMetadata(file) ==
  [file EXCEPT !.metadata =
     [key \in DOMAIN file.metadata |->
        IF key \in BookConfigKeys /\ bookConfig(key) # None
        THEN bookConfig(key) ELSE file.metadata[key]]]

\* the text of the first heading of the markdown of a document (None: the
\* markdown does not start with a heading)
HeadingText(doc) ==
  CASE doc = IndexFile -> "Welcome"
    [] doc = IntroFile -> "Getting started"
    [] OTHER -> None

\* partitionMarkdown(markdown): the first heading and the markdown that
\* follows it ("body": the markdown of the document without its heading)
partitionMarkdown(markdown) ==
  [headingText |-> HeadingText(markdown[1][2]),
   markdown |-> IF HeadingText(markdown[1][2]) = None THEN markdown
                ELSE << <<"body", markdown[1][2], markdown[1][3]>> >>]

isBookIndexPage(fileRelative) == fileRelative = IndexFile

\* chapterNumberForInput(project, fileRelative): the position of the
\* document among the documents of the book items that are not the index,
\* in book order (0: not a chapter)
RECURSIVE ChapterNumberFrom(_, _, _, _)
ChapterNumberFrom(bookItems, i, fileRelative, count) ==
  IF i > Len(bookItems) THEN 0
  ELSE IF bookItems[i].file = NoFile \/ bookItems[i].type = "index"
  THEN ChapterNumberFrom(bookItems, i + 1, fileRelative, count)
  ELSE IF bookItems[i].file = fileRelative THEN count + 1
  ELSE ChapterNumberFrom(bookItems, i + 1, fileRelative, count + 1)

chapterNumberForInput(bookItems, fileRelative) ==
  ChapterNumberFrom(bookItems, 1, fileRelative, 0)

\* withChapterTitleMetadata(format, partitioned, chapterNumber): a copy of
\* the format titled by the heading and carrying the chapter number
withChapterTitleMetadata(file, partitioned, chapterNumber) ==
  [file EXCEPT !.metadata.title = partitioned.headingText,
               !.metadata.chapterNumber = <<chapterNumber>>]

\* a faulty variant of ChapterNumberOf: every format numbers by position
ChapterNumberOfAnyFormat(file) ==
  chapterNumberForInput(BookItems, relative(ProjectDir, file.input))

\* the chapterNumber of the loop of renderMultiFileBook
ChapterNumberOf(file) ==
  IF isHtmlOutput(file.format)
  THEN chapterNumberForInput(BookItems, relative(ProjectDir, file.input))
  ELSE 0

\* the chapter branch of the loop of renderMultiFileBook, given the
\* partitioned markdown and the chapter number
ChapterFile(file, partitioned, chapterNumber) ==
  [(IF partitioned.headingText # None
    THEN withChapterTitleMetadata(file, partitioned, chapterNumber)
    ELSE file)
   EXCEPT !.executeResult.markdown = partitioned.markdown]

\* the body of the loop of renderMultiFileBook up to the call of
\* extension.renderFile: the file as the loop leaves it in the files array
BookFile(file) ==
  IF isBookIndexPage(relative(ProjectDir, file.input))
  THEN [withBookTitleMetadata(file) EXCEPT !.metadata.toc = FALSE]
  ELSE ChapterFile(file, partitionMarkdown(file.executeResult.markdown),
                   ChapterNumberOf(file))

\* the loop of renderMultiFileBook from file i on; RenderMultiFile is the
\* call of extension.renderFile for files[i], once the loop has changed it
RECURSIVE RenderMultiFrom(_, _, _, _, _, _)
RECURSIVE RenderMultiFile(_, _, _, _, _, _)
RenderMultiFrom(files, i, calls, failAt, renderedFiles, log) ==
  IF i > Len(files)
  THEN [threw |-> FALSE, rendered |-> renderedFiles, log |-> log,
        calls |-> calls, files |-> files]
  ELSE RenderMultiFile([files EXCEPT ![i] = BookFile(files[i])], i, calls,
                       failAt, renderedFiles, log)

RenderMultiFile(files, i, calls, failAt, renderedFiles, log) ==
  IF calls + 1 = failAt
  THEN [threw |-> TRUE, rendered |-> << >>,
        log |-> Append(log, LogEntry("renderFile", files[i], << >>, {}, FALSE)),
        calls |-> calls + 1, files |-> files]
  ELSE RenderMultiFrom(files, i + 1, calls + 1, failAt,
         Append(renderedFiles, RenderedFile(files[i])),
         Append(log, LogEntry("renderFile", files[i], << >>, {}, TRUE)))

\* a faulty variant of renderMultiFileBook: the loop starts at the second file
RenderMultiFileBookFromSecond(files, calls, failAt) ==
  RenderMultiFrom(files, 2, calls, failAt, << >>, << >>)

renderMultiFileBook(files, calls, failAt) ==
  RenderMultiFrom(files, 1, calls, failAt, << >>, << >>)

\* a faulty variant of RenderMerged: the executed files are cleaned up before
\* renderPandoc is called
RenderMergedCleaningFirst(files, calls, failAt, threw, executedFile) ==
  IF threw
  THEN [threw |-> TRUE, rendered |-> << >>,
        log |-> << LogEntry("merge", executedFile, << >>, {}, FALSE) >>,
        calls |-> calls, files |-> files]
  ELSE [threw |-> calls + 1 = failAt,
        rendered |-> IF calls + 1 = failAt THEN << >>
                     ELSE <<RenderedFile(executedFile)>>,
        log |-> CleanupEach(files,
                   join(ProjectDir, RenderedFile(executedFile).file))
                \o << LogEntry("renderPandoc", executedFile, << >>, {},
                                calls + 1 # failAt) >>,
        calls |-> calls + 1, files |-> files]

\* renderPandoc(executedFile) and the cleanup step for each executed file
RenderMerged(files, calls, failAt, threw, executedFile) ==
  IF threw
  THEN [threw |-> TRUE, rendered |-> << >>,
        log |-> << LogEntry("merge", executedFile, << >>, {}, FALSE) >>,
        calls |-> calls, files |-> files]
  ELSE IF calls + 1 = failAt
  THEN [threw |-> TRUE, rendered |-> << >>,
        log |-> << LogEntry("renderPandoc", executedFile, << >>, {}, FALSE) >>,
        calls |-> calls + 1, files |-> files]
  ELSE [threw |-> FALSE, rendered |-> <<RenderedFile(executedFile)>>,
        log |-> << LogEntry("renderPandoc", executedFile, << >>, {}, TRUE) >>
                \o CleanupEach(files,
                      join(ProjectDir, RenderedFile(executedFile).file)),
        calls |-> calls + 1, files |-> files]

RenderMergedFile(files, calls, failAt, merged) ==
  RenderMerged(files, calls, failAt, merged.threw,
               withBookTitleMetadata(merged.executedFile))

renderSingleFileBook(bookItems, files, calls, failAt) ==
  RenderMergedFile(files, calls, failAt, mergeExecutedFiles(bookItems, files))

\* delete files[renderFormat]
RECURSIVE DeleteKey(_, _)
DeleteKey(keys, key) ==
  IF keys = << >> THEN << >>
  ELSE IF Head(keys) = key THEN Tail(keys)
  ELSE <<Head(keys)>> \o DeleteKey(Tail(keys), key)

\* the try block of onComplete: the loop over Object.keys(files); st is
\* [keys, files, rendered, log, calls, threw]
\* the body of the loop up to the render of one format
RenderFormat(bookItems, executedFiles, calls, failAt) ==
  IF Len(executedFiles) = 0
  THEN [threw |-> FALSE, rendered |-> << >>, log |-> << >>, calls |-> calls,
        files |-> executedFiles]
  ELSE IF HasRenderFile(executedFiles[1].format)
  THEN renderMultiFileBook(executedFiles, calls, failAt)
  ELSE renderSingleFileBook(bookItems, executedFiles, calls, failAt)

RECURSIVE CompleteFrom(_, _, _, _, _)
RECURSIVE CompleteFormat(_, _, _, _, _, _)
CompleteFrom(bookItems, renderFormats, i, st, failAt) ==
  IF i > Len(renderFormats) THEN st
  ELSE CompleteFormat(bookItems, renderFormats, i, st, failAt,
         RenderFormat(bookItems, st.files[renderFormats[i]], st.calls, failAt))

\* r is what the render of the format returned: a throw leaves the loop
\* (with the executed files as the render left them), otherwise the rendered
\* files are pushed and the format is deleted
CompleteFormat(bookItems, renderFormats, i, st, failAt, r) ==
  IF r.threw
  THEN [st EXCEPT !.log = st.log \o r.log, !.calls = r.calls, !.threw = TRUE,
                  !.files[renderFormats[i]] = r.files]
  ELSE CompleteFrom(bookItems, renderFormats, i + 1,
         [keys |-> DeleteKey(st.keys, renderFormats[i]),
          files |-> [st.files EXCEPT ![renderFormats[i]] = << >>],
          rendered |-> st.rendered \o r.rendered,
          log |-> st.log \o r.log,
          calls |-> r.calls,
          threw |-> FALSE],
         failAt)

\* onComplete starts with no rendered file
Start(keys, fileMap) ==
  [keys |-> keys, files |-> fileMap, rendered |-> << >>, log |-> << >>,
   calls |-> 0, threw |-> FALSE]

\* a faulty variant of Catch: after a render failure no rendered file is returned
CatchDroppingRendered(st) ==
  IF st.threw
  THEN [st EXCEPT !.log = st.log \o cleanupExecutedFiles(st.keys, st.files),
                  !.rendered = << >>]
  ELSE st

\* the catch block of onComplete
Catch(st) ==
  IF st.threw
  THEN [st EXCEPT !.log = st.log \o cleanupExecutedFiles(st.keys, st.files)]
  ELSE st

\* onComplete(error): [keys, files, rendered, log, calls, threw] at return
onComplete(bookItems, keys, fileMap, error, failAt) ==
  IF error
  THEN [Start(keys, fileMap) EXCEPT !.log = cleanupExecutedFiles(keys, fileMap)]
  ELSE Catch(CompleteFrom(bookItems, keys, 1, Start(keys, fileMap), failAt))

(***************************************************************************)
(* State.                                                                  *)
(***************************************************************************)
VARIABLES
  policy,     \* the freeze policy of the build
  content,    \* the version of the source of every document
  options,    \* the options of every format
  freezer,    \* the freezer: slot of every document and format
  disk,       \* the files dirs present next to the inputs
  phase,      \* "collecting" or "done": the build at hand
  requested,  \* the pairs whose execution was requested in this build
  executed,   \* the pairs the Execution Adapter ran for in this build
  inflight,   \* executed files not yet handed to onRender
  hadError,   \* an execution of this build failed
  fileKeys,   \* Object.keys(files): the formats in insertion order
  files,      \* files: the executed files accumulated for every format
  log,        \* the calls made by onComplete, in order
  result,     \* what onComplete returned: << >> or <<[files, error]>>
  frozenFrom, \* per slot: the source and the result of the execution that
              \* stored its entry, kept by SpecFreeze (<< >>: nothing stored)
  lastRequest,\* the last execution request served across builds
  steps,      \* the number of steps taken across builds
  staging,    \* per slot: the entry being written in the staging location
              \* of the freezer (<< >>: no store under way)
  merges,     \* the book items and the results of the calls of
              \* mergeExecutedFiles made on their own (SpecMerge)
  definitions,\* the schema definitions: per id, the calls of
              \* setSchemaDefinition made for it, in order
  cached,     \* per function returned by defineCached: its schema variable
              \* (<< >>: unset)
  thunks,     \* per function returned by defineCached: the number of times
              \* its thunk was invoked
  callers,    \* per caller of a function returned by defineCached: where
              \* its call stands
  loader,     \* where the call of loadSchemaDefinitions stands
  definer,    \* where a call of define made on its own stands
  analytics   \* the last call of websiteAnalyticsScriptFile: the site
              \* metadata given and the script file written (<< >>: no call)

sideVars == <<definitions, cached, thunks, callers, loader, definer,
              analytics>>

bookVars == <<disk, phase, requested, executed, inflight, hadError, fileKeys,
              files, log, result, merges, sideVars>>

freezeVars == <<frozenFrom, lastRequest, steps, staging>>

vars == <<policy, content, options, freezer, disk, phase, requested,
          executed, inflight, hadError, fileKeys, files, log, result,
          frozenFrom, lastRequest, steps, staging, merges,
          definitions, cached, thunks, callers, loader, definer,
          analytics>>

(***************************************************************************)
(* The schema definitions (definitions.ts): the functions returned by      *)
(* defineCached, their callers, and the schema ids.                        *)
(***************************************************************************)
MaxCallers == 2

Callers == 1..MaxCallers

SchemaIds == {"s", "t"}

\* the functions returned by defineCached(thunk, schemaId)
Closures == {"c1", "c2"}

\* the schemaId each function was made for
SchemaIdOf(closure) == "s"

\* the $id of the schema that the thunk of each function builds
ThunkId(closure) == IF closure = "c1" THEN "s" ELSE "raw"

\* the ids of the schemas of the definitions file
YamlIds == {"s", "t"}

NoCall == [pc |-> "idle", closure |-> None, schema |-> << >>, outcome |-> << >>]

SideInit ==
  /\ definitions = [id \in SchemaIds |-> << >>]
  /\ cached = [f \in Closures |-> << >>]
  /\ thunks = [f \in Closures |-> 0]
  /\ callers = [c \in Callers |-> NoCall]
  /\ loader = [pc |-> "idle", pending |-> {}]
  /\ definer = [pc |-> "idle", schema |-> << >>]
  /\ analytics = << >>

EmptyFreezer == [p \in Pairs |-> << >>]

DefaultOptions == [f \in Formats |-> [toc |-> "on", verbose |-> "off"]]

\* the freezer left by an earlier build that executed every document when
\* its source was at the version given
FrozenAt(version) ==
  [p \in Pairs |->
     << Entry(Fingerprint(version, DefaultOptions[p[2]]),
              ExecuteResult(p[1], version, DefaultOptions[p[2]]),
              ResourceFiles(ExecuteResult(p[1], version, DefaultOptions[p[2]]))) >>]

Init ==
  /\ policy \in Policies
  /\ content = [d \in Docs |-> "v1"]
  /\ options = DefaultOptions
  /\ freezer \in {EmptyFreezer} \cup {FrozenAt(v) : v \in Versions}
  /\ disk = {}
  /\ phase = "collecting"
  /\ requested = {}
  /\ executed = {}
  /\ inflight = {}
  /\ hadError = FALSE
  /\ fileKeys = << >>
  /\ files = [f \in Formats |-> << >>]
  /\ log = << >>
  /\ result = << >>
  /\ frozenFrom = [p \in Pairs |-> << >>]
  /\ lastRequest = << >>
  /\ steps = 0
  /\ staging = [p \in Pairs |-> << >>]
  /\ merges = [items |-> BookItems, runs |-> << >>]
  /\ SideInit

(***************************************************************************)
(* The build: execution requests (through the freezer), onRender and       *)
(* onComplete.                                                             *)
(***************************************************************************)
\* what the freezer or the Execution Adapter leaves on the disk
Produced(file) ==
  IF Len(file.executeResult.supporting) > 0 THEN {FilesDir(file.input)} ELSE {}

\* a frozen result is used instead of an execution
UseFrozen(doc, format) ==
  LET hit == Lookup(freezer, doc, format,
                    Fingerprint(content[doc], options[format]), policy)
      file == ExecutedFile(doc, format, hit[1])
  IN /\ phase = "collecting" /\ ~hadError
     /\ <<doc, format>> \notin requested
     /\ Cardinality(inflight) < MaxInFlight
     /\ hit # << >>
     /\ requested' = requested \cup {<<doc, format>>}
     /\ inflight' = inflight \cup {file}
     /\ disk' = disk \cup Produced(file)
     /\ UNCHANGED <<policy, content, options, freezer, phase,
                    executed, hadError, fileKeys, files, log, result,
                    freezeVars, merges, sideVars>>

\* the Execution Adapter runs and succeeds; the result is frozen
ExecuteOk(doc, format) ==
  LET fingerprint == Fingerprint(content[doc], options[format])
      executeResult == ExecuteResult(doc, content[doc], options[format])
      file == ExecutedFile(doc, format, executeResult)
  IN /\ phase = "collecting" /\ ~hadError
     /\ <<doc, format>> \notin requested
     /\ Cardinality(inflight) < MaxInFlight
     /\ Lookup(freezer, doc, format, fingerprint, policy) = << >>
     /\ requested' = requested \cup {<<doc, format>>}
     /\ executed' = executed \cup {<<doc, format>>}
     /\ inflight' = inflight \cup {file}
     /\ freezer' = IF policy = "never" THEN freezer
                   ELSE Store(freezer, doc, format, fingerprint, executeResult)
     /\ disk' = disk \cup Produced(file)
     /\ UNCHANGED <<policy, content, options, phase, hadError,
                    fileKeys, files, log, result,
                    freezeVars, merges, sideVars>>

\* the Execution Adapter runs and fails: no further execution is requested
ExecuteFail(doc, format) ==
  /\ phase = "collecting" /\ ~hadError
  /\ <<doc, format>> \notin requested
  /\ Lookup(freezer, doc, format,
            Fingerprint(content[doc], options[format]), policy) = << >>
  /\ requested' = requested \cup {<<doc, format>>}
  /\ executed' = executed \cup {<<doc, format>>}
  /\ hadError' = TRUE
  /\ UNCHANGED <<policy, content, options, freezer, disk, phase,
                 inflight, fileKeys, files, log, result,
                 freezeVars, merges, sideVars>>

\* a faulty variant of onRender: the bucket of the format is replaced
onRenderReplacingBucket(fileMap, file) ==
  [fileMap EXCEPT ![file.format] = <<file>>]

\* files[format] = files[format] || []; files[format].push(file)
onRender(fileMap, file) ==
  [fileMap EXCEPT ![file.format] = Append(@, file)]

\* onRender(format, file): the callback runs to its end without suspending
OnRender(file) ==
  /\ phase = "collecting"
  /\ file \in inflight
  /\ inflight' = inflight \ {file}
  /\ fileKeys' = IF files[file.format] = << >>
                 THEN Append(fileKeys, file.format) ELSE fileKeys
  /\ files' = onRender(files, file)
  /\ UNCHANGED <<policy, content, options, freezer, disk, phase,
                 requested, executed, hadError, log, result,
                 freezeVars, merges, sideVars>>

\* a faulty variant of AllTerminal: the caller does not wait
AllTerminalOrNot == TRUE

\* every pair whose execution was requested has reached a terminal state:
\* its executed file was handed to onRender, or its execution failed
AllTerminal == inflight = {}

\* onComplete(error), called once nothing is in flight, after a failure or
\* when the caller has no further document to render
OnComplete(failAt) ==
  /\ phase = "collecting"
  /\ AllTerminal
  /\ hadError \/ requested # {}
  /\ \E st \in {onComplete(BookItems, fileKeys, files, hadError, failAt)} :
       /\ fileKeys' = st.keys
       /\ files' = st.files
       /\ log' = st.log
       /\ result' = << [files |-> st.rendered, error |-> st.threw] >>
  /\ phase' = "done"
  /\ disk' = disk \ RemovedBy(log')
  /\ freezer' = RemoveDirs(freezer, RemovedBy(log'))
  /\ UNCHANGED <<policy, content, options, requested,
                 executed, inflight, hadError,
                 freezeVars, merges, sideVars>>

MaxCalls == Cardinality(Docs) + 1

Next ==
  \/ \E d \in Docs, f \in Formats : UseFrozen(d, f)
  \/ \E d \in Docs, f \in Formats : ExecuteOk(d, f)
  \/ \E d \in Docs, f \in Formats : ExecuteFail(d, f)
  \/ \E file \in inflight : OnRender(file)
  \/ \E failAt \in 0..MaxCalls : OnComplete(failAt)

Spec == Init /\ [][Next]_vars

(***************************************************************************)
(* The freezer across builds: between two execution requests the source of *)
(* a document, the options of a format or the freeze policy may change.    *)
(***************************************************************************)
InitFreeze ==
  /\ policy \in Policies
  /\ content = [d \in Docs |-> "v1"]
  /\ options = DefaultOptions
  /\ freezer = EmptyFreezer
  /\ disk = {}
  /\ phase = "collecting"
  /\ requested = {}
  /\ executed = {}
  /\ inflight = {}
  /\ hadError = FALSE
  /\ fileKeys = << >>
  /\ files = [f \in Formats |-> << >>]
  /\ log = << >>
  /\ result = << >>
  /\ frozenFrom = [p \in Pairs |-> << >>]
  /\ lastRequest = << >>
  /\ steps = 0
  /\ staging = [p \in Pairs |-> << >>]
  /\ merges = [items |-> BookItems, runs |-> << >>]
  /\ SideInit

\* the source of a document is edited
ModifySource(doc, version) ==
  /\ steps < MaxSteps
  /\ version # content[doc]
  /\ content' = [content EXCEPT ![doc] = version]
  /\ steps' = steps + 1
  /\ UNCHANGED <<policy, options, freezer, bookVars, frozenFrom, lastRequest,
                 staging>>

\* an option of a format is changed
SetOption(format, opts) ==
  /\ steps < MaxSteps
  /\ opts # options[format]
  /\ opts.toc = options[format].toc \/ opts.verbose = options[format].verbose
  /\ options' = [options EXCEPT ![format] = opts]
  /\ steps' = steps + 1
  /\ UNCHANGED <<policy, content, freezer, bookVars, frozenFrom, lastRequest,
                 staging>>

\* the freeze option of the project is changed
SetPolicy(pol) ==
  /\ steps < MaxSteps
  /\ pol # policy
  /\ policy' = pol
  /\ steps' = steps + 1
  /\ UNCHANGED <<content, options, freezer, bookVars, frozenFrom, lastRequest,
                 staging>>

\* a build requests the execution of a document for a format: the frozen
\* result is used on a hit; on a miss the Execution Adapter runs and its
\* result is stored unless the policy is never
Request(doc, format) ==
  LET fingerprint == Fingerprint(content[doc], options[format])
      hit == Lookup(freezer, doc, format, fingerprint, policy)
      executeResult == ExecuteResult(doc, content[doc], options[format])
      stores == hit = << >> /\ policy # "never"
  IN /\ steps < MaxSteps
     /\ steps' = steps + 1
     /\ freezer' = IF stores
                   THEN Store(freezer, doc, format, fingerprint, executeResult)
                   ELSE freezer
     /\ frozenFrom' =
          IF stores
          THEN [frozenFrom EXCEPT ![<<doc, format>>] =
                  << [version |-> content[doc], opts |-> options[format],
                      result |-> executeResult] >>]
          ELSE frozenFrom
     /\ lastRequest' =
          << [doc |-> doc, format |-> format, policy |-> policy,
              version |-> content[doc], opts |-> options[format],
              before |-> frozenFrom[<<doc, format>>],
              hit |-> hit # << >>,
              result |-> IF hit # << >> THEN hit[1] ELSE executeResult] >>
     /\ UNCHANGED <<policy, content, options, bookVars, staging>>

\* invalidate(document, targetFormat)
InvalidateEntry(doc, format) ==
  /\ steps < MaxSteps
  /\ freezer[<<doc, format>>] # << >>
  /\ steps' = steps + 1
  /\ freezer' = Invalidate(freezer, doc, format)
  /\ frozenFrom' = [frozenFrom EXCEPT ![<<doc, format>>] = << >>]
  /\ UNCHANGED <<policy, content, options, bookVars, lastRequest, staging>>

NextFreeze ==
  \/ \E d \in Docs, v \in Versions : ModifySource(d, v)
  \/ \E f \in Formats, o \in FormatOptions : SetOption(f, o)
  \/ \E pol \in Policies : SetPolicy(pol)
  \/ \E d \in Docs, f \in Formats : Request(d, f)
  \/ \E d \in Docs, f \in Formats : InvalidateEntry(d, f)

SpecFreeze == InitFreeze /\ [][NextFreeze]_vars

(***************************************************************************)
(* The store of the freezer in steps (SpecStore): the entry is written to  *)
(* a staging location, its resource files are copied there one by one, and *)
(* a single rename moves it into the slot.  The writer may crash between   *)
(* any two steps, and resource files of a slot may be deleted from         *)
(* outside.  The freezer of an earlier build may hold entries stored when  *)
(* the sources were at another version.                                    *)
(***************************************************************************)
MaxStoreSteps == 5

\* a faulty variant of StageWrite: the entry is written in the slot itself
StageWriteInPlace(fz, stg, p, entry) ==
  [freezer |-> [fz EXCEPT ![p] = <<entry>>],
   staging |-> [stg EXCEPT ![p] = <<entry>>]]

\* a write of a store under way goes to the staging location
StageWrite(fz, stg, p, entry) ==
  [freezer |-> fz, staging |-> [stg EXCEPT ![p] = <<entry>>]]

\* a build requests the execution of a document for a format: on a miss
\* the Execution Adapter runs and, unless the policy is never, the store
\* of its result begins
ServeRequest(doc, format) ==
  LET fingerprint == Fingerprint(content[doc], options[format])
      hit == Lookup(freezer, doc, format, fingerprint, policy)
      executeResult == ExecuteResult(doc, content[doc], options[format])
  IN /\ steps < MaxStoreSteps
     /\ staging[<<doc, format>>] = << >>
     /\ steps' = steps + 1
     /\ lastRequest' =
          << [doc |-> doc, format |-> format, policy |-> policy,
              version |-> content[doc], opts |-> options[format],
              slot |-> freezer[<<doc, format>>],
              hit |-> hit # << >>,
              result |-> IF hit # << >> THEN hit[1] ELSE executeResult] >>
     /\ IF hit = << >> /\ policy # "never"
        THEN \E w \in {StageWrite(freezer, staging, <<doc, format>>,
                                  Entry(fingerprint, executeResult, {}))} :
               freezer' = w.freezer /\ staging' = w.staging
        ELSE UNCHANGED <<freezer, staging>>
     /\ UNCHANGED <<policy, content, options, bookVars, frozenFrom>>

\* one resource file of the result is copied to the staging location
CopyResource(p, r) ==
  /\ steps < MaxStoreSteps
  /\ staging[p] # << >>
  /\ r \in ResourceFiles(staging[p][1].result) \ staging[p][1].resources
  /\ steps' = steps + 1
  /\ \E w \in {StageWrite(freezer, staging, p,
                            [staging[p][1] EXCEPT !.resources = @ \cup {r}])} :
       freezer' = w.freezer /\ staging' = w.staging
  /\ UNCHANGED <<policy, content, options, bookVars, frozenFrom, lastRequest>>

\* the rename of the staged entry, once complete, into the slot
CommitStore(p) ==
  /\ steps < MaxStoreSteps
  /\ staging[p] # << >>
  /\ Readable(staging[p][1])
  /\ steps' = steps + 1
  /\ freezer' = Store(freezer, p[1], p[2], staging[p][1].fingerprint,
                      staging[p][1].result)
  /\ staging' = [staging EXCEPT ![p] = << >>]
  /\ UNCHANGED <<policy, content, options, bookVars, frozenFrom, lastRequest>>

\* the writer crashes: what it staged is never renamed
Crash(p) ==
  /\ steps < MaxStoreSteps
  /\ staging[p] # << >>
  /\ steps' = steps + 1
  /\ staging' = [staging EXCEPT ![p] = << >>]
  /\ UNCHANGED <<policy, content, options, freezer, bookVars, frozenFrom,
                 lastRequest>>

\* a resource file of a slot is deleted from outside
DeleteResource(p, r) ==
  /\ steps < MaxStoreSteps
  /\ freezer[p] # << >>
  /\ r \in freezer[p][1].resources
  /\ steps' = steps + 1
  /\ freezer' = [freezer EXCEPT ![p] =
                   << [freezer[p][1] EXCEPT !.resources = @ \ {r}] >>]
  /\ UNCHANGED <<policy, content, options, bookVars, frozenFrom, lastRequest,
                 staging>>

AllResources == UNION {ResourceFiles(ExecuteResult(d, "v1", DefaultOptions["html"])) : d \in Docs}

NextStore ==
  \/ \E d \in Docs, f \in Formats : ServeRequest(d, f)
  \/ \E p \in Pairs, r \in AllResources : CopyResource(p, r)
  \/ \E p \in Pairs : CommitStore(p)
  \/ \E p \in Pairs : Crash(p)
  \/ \E p \in Pairs, r \in AllResources : DeleteResource(p, r)

SpecStore == Init /\ [][NextStore]_vars

(***************************************************************************)
(* mergeExecutedFiles on its own (SpecMerge): the bucket of pdf holds the  *)
(* executed files of some documents in some order of recording, the book   *)
(* is one of two, and the merge is run on the bucket more than once.       *)
(***************************************************************************)
MaxMerges == 2

\* a book whose part is backed by a document
BookItemsPartFile ==
  << [type |-> "index", file |-> IndexFile, text |-> None],
     [type |-> "part", file |-> IntroFile, text |-> None],
     [type |-> "appendix", file |-> NoFile, text |-> "Appendices"],
     [type |-> "chapter", file |-> ApxFile, text |-> None] >>

\* the orders in which executed files of distinct documents are recorded
Recordings ==
  {seq \in UNION {[1..n -> Docs] : n \in 1..Cardinality(Docs)} :
     \A i, j \in 1..Len(seq) : seq[i] = seq[j] => i = j}

InitMerge ==
  /\ policy = "never"
  /\ content \in [Docs -> Versions]
  /\ options = DefaultOptions
  /\ freezer = EmptyFreezer
  /\ disk = {}
  /\ phase = "collecting"
  /\ \E docs \in Recordings :
       /\ requested = {<<docs[i], "pdf">> : i \in 1..Len(docs)}
       /\ files = [f \in Formats |->
                     IF f = "pdf"
                     THEN [i \in 1..Len(docs) |->
                             ExecutedFile(docs[i], "pdf",
                               ExecuteResult(docs[i], content[docs[i]],
                                             options["pdf"]))]
                     ELSE << >>]
  /\ executed = requested
  /\ inflight = {}
  /\ hadError = FALSE
  /\ fileKeys = <<"pdf">>
  /\ log = << >>
  /\ result = << >>
  /\ frozenFrom = [p \in Pairs |-> << >>]
  /\ lastRequest = << >>
  /\ steps = 0
  /\ staging = [p \in Pairs |-> << >>]
  /\ merges \in {[items |-> items, runs |-> << >>] :
                   items \in {BookItems, BookItemsPartFile}}
  /\ SideInit

\* mergeExecutedFiles(project, options, files) on the bucket of pdf
Merge ==
  /\ Len(merges.runs) < MaxMerges
  /\ \E m \in {mergeExecutedFiles(merges.items, files["pdf"])} :
       /\ merges' = [merges EXCEPT !.runs =
                       Append(@, [threw |-> m.threw,
                                  warnings |-> m.warnings,
                                  executedFile |-> m.executedFile])]
       /\ files' = [files EXCEPT !["pdf"] = m.files]
  /\ UNCHANGED <<policy, content, options, freezer, disk, phase, requested,
                 executed, inflight, hadError, fileKeys, log, result,
                 freezeVars, sideVars>>

NextMerge == Merge

SpecMerge == InitMerge /\ [][NextMerge]_vars

(***************************************************************************)
(* Helpers of the properties.                                              *)
(***************************************************************************)
Done == phase = "done"

Returned == result[1]

\* the documents of the book in book order
BookDocs ==
  LET withFile == SelectSeq(BookItems, LAMBDA item : item.file # NoFile)
  IN [i \in 1..Len(withFile) |-> withFile[i].file]

\* the documents whose markdown appears in a merged markdown, in order
ChapterDocs(markdown) ==
  LET chapters == SelectSeq(markdown, LAMBDA token : token[1] = "markdown")
  IN [i \in 1..Len(chapters) |-> chapters[i][2]]

LogIndexes(op) == {i \in 1..Len(log) : log[i].op = op}

\* the inputs of the cleanup calls of the log for a format, in call order
CleanedInputs(format) ==
  LET cleanups == SelectSeq(log, LAMBDA e : e.op = "cleanup" /\ e.file.format = format)
  IN [i \in 1..Len(cleanups) |-> cleanups[i].file.input]

\* the files handed to the cleanup calls of the log for a format
CleanedFiles(format) ==
  {log[i].file : i \in {j \in LogIndexes("cleanup") : log[j].file.format = format}}

\* the merged markdown written down from the set of merged files alone
RECURSIVE ExpectedMarkdown(_, _)
ExpectedMarkdown(fileSet, i) ==
  IF i > Len(BookItems) THEN << >>
  ELSE LET item == BookItems[i]
           file == CHOOSE f \in fileSet : f.input = join(ProjectDir, item.file)
           own == IF item.file # NoFile
                  THEN << <<"quarto-file-metadata", item.type,
                            IF Len(item.file) = 1 THEN <<".">>
                            ELSE SubSeq(item.file, 1, Len(item.file) - 1)>> >>
                       \o file.executeResult.markdown
                  ELSE IF item.type = "part"
                  THEN << BookPartOpen,
                          <<"quarto-file-metadata", "part", <<".">> >>,
                          <<"heading", item.text, "">>,
                          BookPartClose >>
                  ELSE << <<"quarto-file-metadata", item.type, <<".">> >>,
                          <<"heading", item.text, "">> >>
       IN own \o ExpectedMarkdown(fileSet, i + 1)

(***************************************************************************)
(* C1: for a format without renderFile the merged markdown handed to       *)
(* renderPandoc lists the chapters in book item order, and is the markdown *)
(* determined by the set of recorded files alone, whatever the order in    *)
(* which onRender recorded them.                                           *)
(***************************************************************************)
MergeOrderIsBookOrder ==
  \A i \in LogIndexes("renderPandoc") :
    LET merged == log[i].file
    IN /\ ChapterDocs(merged.executeResult.markdown) = BookDocs
       /\ log[i].ok =>
            merged.executeResult.markdown
              = ExpectedMarkdown(CleanedFiles(merged.format), 1)

\* the files were recorded in the order C, A, B and the merge was rendered
MergeOutOfOrderWitness ==
  /\ Done
  /\ \E i \in LogIndexes("renderPandoc") : log[i].ok
  /\ CleanedInputs("pdf") = << join(ProjectDir, ApxFile),
                              join(ProjectDir, IndexFile),
                              join(ProjectDir, IntroFile) >>

(***************************************************************************)
(* C6: onComplete called with the error flag cleans up every executed file *)
(* accumulated for every format (each once), invokes no render and returns *)
(* no rendered file.                                                       *)
(***************************************************************************)
\* the files handed to the cleanup calls of the log for a format, in order
CleanedSeq(format) ==
  LET cleanups == SelectSeq(log, LAMBDA e : e.op = "cleanup" /\ e.file.format = format)
  IN [i \in 1..Len(cleanups) |-> cleanups[i].file]

ErrorCompleteCleansAll ==
  (Done /\ hadError) =>
    /\ Returned.files = << >>
    /\ ~Returned.error
    /\ LogIndexes("renderFile") = {}
    /\ LogIndexes("renderPandoc") = {}
    /\ LogIndexes("merge") = {}
    /\ \A f \in Formats : CleanedSeq(f) = files[f]

ErrorCompleteWitness ==
  /\ Done /\ hadError
  /\ Len(files["html"]) >= 2
  /\ Len(files["pdf"]) >= 1
  /\ Len(log) >= 3

(***************************************************************************)
(* C7: when a book item references a document for which no executed file   *)
(* with that input was recorded for the merged format, the merge fails:    *)
(* onComplete returns an error and no merged document is rendered.         *)
(***************************************************************************)
\* the documents recorded for a format in a build without execution error
RecordedDocs(format) == {d \in Docs : <<d, format>> \in requested}

MissingItemFailsMerge ==
  (Done /\ ~hadError /\ RecordedDocs("pdf") # {} /\ RecordedDocs("pdf") # Docs) =>
    /\ Returned.error
    /\ LogIndexes("renderPandoc") = {}
    /\ \A i \in 1..Len(Returned.files) : Returned.files[i].format # "pdf"

\* the merge threw, after the per-document format was rendered
MissingItemWitness ==
  /\ Done /\ ~hadError
  /\ \E i \in LogIndexes("merge") : ~log[i].ok
  /\ Cardinality(RecordedDocs("pdf")) = 2
  /\ Returned.files # << >>

(***************************************************************************)
(* C8: when onComplete runs without error and every render succeeds, a     *)
(* format with recorded results contributes one rendered file per recorded *)
(* document if it has renderFile, and one rendered file otherwise.         *)
(***************************************************************************)
ReturnedFor(format) ==
  SelectSeq(Returned.files, LAMBDA rendered : rendered.format = format)

RenderedFilesPerFormat ==
  (Done /\ ~hadError /\ ~Returned.error) =>
    \A f \in Formats :
      /\ Len(ReturnedFor(f)) =
           IF RecordedDocs(f) = {} THEN 0
           ELSE IF HasRenderFile(f) THEN Cardinality(RecordedDocs(f))
           ELSE 1
      /\ HasRenderFile(f) =>
           {ReturnedFor(f)[i].file : i \in 1..Len(ReturnedFor(f))}
             = {join(ProjectDir, d) \o <<OutputExt(f)>> : d \in RecordedDocs(f)}

RenderedFilesWitness ==
  /\ Done /\ ~hadError /\ ~Returned.error
  /\ Len(ReturnedFor("html")) = Cardinality(Docs)
  /\ Len(ReturnedFor("pdf")) = 1

(***************************************************************************)
(* C9: a render step fails inside onComplete (no execution error).         *)
(***************************************************************************)
\* the rendered files of the render calls of the log that succeeded
SuccessfulRenders(ops, skipped) ==
  LET renders == SelectSeq(log, LAMBDA e : e.op \in ops /\ e.ok
                                            /\ e.file.format \notin skipped)
  IN [i \in 1..Len(renders) |-> RenderedFile(renders[i].file)]

\* the call that threw
FailedCall == CHOOSE i \in 1..Len(log) : ~log[i].ok

\* the files handed to the cleanup calls made after the call that threw
CleanedAfterFailure ==
  LET after == SubSeq(log, FailedCall + 1, Len(log))
  IN [i \in 1..Len(after) |-> after[i].file]

RECURSIVE Accumulated(_)
Accumulated(keys) ==
  IF keys = << >> THEN << >> ELSE files[Head(keys)] \o Accumulated(Tail(keys))

FailedBuildKeepsFreezer ==
  [][(phase = "collecting" /\ phase' = "done" /\ hadError) =>
       /\ freezer' = freezer
       /\ \A f \in Formats : \A i \in 1..Len(files[f]) :
            LET file == files[f][i]
                doc == relative(ProjectDir, file.input)
            IN /\ Produced(file) \cap disk' = {}
               /\ (<<doc, f>> \in executed /\ policy # "never") =>
                    Lookup(freezer', doc, f,
                           Fingerprint(content[doc], options[f]), policy)
                      = <<file.executeResult>>]_vars

FailedBuildWitness ==
  /\ Done /\ hadError /\ policy = "auto"
  /\ \E f \in Formats : \E i \in 1..Len(files[f]) :
       LET file == files[f][i]
           doc == relative(ProjectDir, file.input)
       IN /\ <<doc, f>> \in executed
          /\ freezer[<<doc, f>>] # << >>
          /\ Produced(file) # {}
          /\ Produced(file) \cap disk = {}

(***************************************************************************)
(* C11: whatever the order in which onRender is called for different       *)
(* documents and formats, no update is lost: while the build collects, and *)
(* so when onComplete starts, the bucket of every format holds exactly the *)
(* executed files handed to onRender for that format, each once, and a     *)
(* step never removes or replaces an entry recorded earlier.               *)
(***************************************************************************)
\* the positions of all buckets
BucketEntries == UNION {{<<f, i>> : i \in 1..Len(files[f])} : f \in Formats}

BucketsHoldRecorded ==
  phase = "collecting" =>
    /\ \A f \in Formats : \A i \in 1..Len(files[f]) :
         /\ files[f][i].format = f
         /\ <<relative(ProjectDir, files[f][i].input), f>> \in requested
         /\ files[f][i] \notin inflight
         /\ \A j \in 1..Len(files[f]) :
              files[f][j].input = files[f][i].input => j = i
    /\ Cardinality(requested)
         = Cardinality(BucketEntries) + Cardinality(inflight)
           + (IF hadError THEN 1 ELSE 0)
    /\ {fileKeys[i] : i \in 1..Len(fileKeys)} = {f \in Formats : files[f] # << >>}
    /\ Len(fileKeys) = Cardinality({f \in Formats : files[f] # << >>})

BucketsOnlyGrow ==
  phase' = "collecting" =>
    \A f \in Formats :
      /\ Len(files'[f]) >= Len(files[f])
      /\ SubSeq(files'[f], 1, Len(files[f])) = files[f]

NoLostUpdate == []BucketsHoldRecorded /\ [][BucketsOnlyGrow]_vars

\* the calls for the two formats were interleaved and came out of book order
InterleavedRecordingWitness ==
  /\ phase = "collecting" /\ inflight = {} /\ ~hadError
  /\ fileKeys = <<"pdf", "html">>
  /\ Len(files["html"]) >= 2 /\ Len(files["pdf"]) >= 2
  /\ files["pdf"][1].input = join(ProjectDir, ApxFile)
  /\ files["html"][1].input = join(ProjectDir, IntroFile)

(***************************************************************************)
(* C12: finalization is a join barrier.  onComplete, which renders or      *)
(* merges the files of a format, starts only when every pair whose         *)
(* execution was requested is terminal (recorded, or failed); until then   *)
(* nothing is rendered or merged, and the result produced for a pair is    *)
(* made of that pair's own source, options and freezer slot only.          *)
(***************************************************************************)
\* the pair is terminal: its file is in the bucket of its format
IsRecorded(doc, format) ==
  \E i \in 1..Len(files[format]) : files[format][i].input = join(ProjectDir, doc)

NothingFinalized ==
  phase = "collecting" => log = << >> /\ result = << >>

FinalizationWaits ==
  (phase = "collecting" /\ phase' = "done") =>
    /\ inflight = {}
    /\ ~hadError => \A p \in requested : IsRecorded(p[1], p[2])
    /\ Cardinality(requested)
         = Cardinality(BucketEntries) + (IF hadError THEN 1 ELSE 0)

OwnResultOnly ==
  \A file \in inflight' \ inflight :
    LET doc == relative(ProjectDir, file.input)
        slot == freezer[<<doc, file.format>>]
    IN file.executeResult
         \in {ExecuteResult(doc, content[doc], options[file.format])}
              \cup {slot[k].result : k \in 1..Len(slot)}

JoinBarrier ==
  []NothingFinalized /\ [][FinalizationWaits /\ OwnResultOnly]_vars

\* both formats were finalized after all six pairs had been recorded
JoinBarrierWitness ==
  /\ Done /\ ~hadError /\ ~Returned.error
  /\ Cardinality(requested) = Cardinality(Pairs)
  /\ \E i \in LogIndexes("renderPandoc") : log[i].ok
  /\ \E i \in LogIndexes("renderFile") : log[i].ok

(***************************************************************************)
(* The renderer under a caller that records a pair more than once          *)
(* (SpecRecord): nothing in bookPandocRenderer tells whether a pair was     *)
(* recorded before, so the caller may hand an executed file for any pair.  *)
(***************************************************************************)
MaxRecordings == 4

InitRecord == Init /\ policy = "never" /\ freezer = EmptyFreezer

\* the caller hands over the executed file of a pair, also of a pair it
\* requested before
HandOver(doc, format) ==
  /\ phase = "collecting"
  /\ inflight = {}
  /\ Cardinality(BucketEntries) < MaxRecordings
  /\ requested' = requested \cup {<<doc, format>>}
  /\ inflight' = {ExecutedFile(doc, format,
                     ExecuteResult(doc, content[doc], options[format]))}
  /\ UNCHANGED <<policy, content, options, freezer, disk, phase, executed,
                 hadError, fileKeys, files, log, result,
                 freezeVars, merges, sideVars>>

NextRecord ==
  \/ \E d \in Docs, f \in Formats : HandOver(d, f)
  \/ \E file \in inflight : OnRender(file)
  \/ \E failAt \in 0..MaxCalls : OnComplete(failAt)

SpecRecord == InitRecord /\ [][NextRecord]_vars

(***************************************************************************)
(* C13: within one build at most one execution result exists per document  *)
(* and format: a second recording for a pair adds no second entry to the   *)
(* bucket of the format.                                                   *)
(***************************************************************************)
OneEntryPerPair ==
  \A f \in Formats : \A i, j \in 1..Len(files[f]) :
    files[f][i].input = files[f][j].input => i = j

(***************************************************************************)
(* The freezer across builds (SpecFreeze).  lastRequest tells how the last *)
(* request was served: before is what frozenFrom held for its slot.        *)
(***************************************************************************)
Served == lastRequest[1]

\* the slot held an entry stored by an earlier request
HadEntry == lastRequest # << >> /\ Served.before # << >>

\* the source and the options that change the output are as they were when
\* the entry was stored
SourceUnchanged ==
  /\ Served.before[1].version = Served.version
  /\ Served.before[1].opts.toc = Served.opts.toc

(***************************************************************************)
(* C2: under auto, when an entry was stored for the document and format    *)
(* and neither the source nor the options that change the output changed,  *)
(* the next request executes nothing and yields the result of the          *)
(* execution that stored the entry.                                        *)
(***************************************************************************)
AutoUnchangedUsesFrozen ==
  (HadEntry /\ Served.policy = "auto" /\ SourceUnchanged) =>
    /\ Served.hit
    /\ Served.result = Served.before[1].result

\* a hit although an option that only changes the logging was changed
AutoUnchangedWitness ==
  /\ HadEntry /\ Served.policy = "auto" /\ SourceUnchanged
  /\ Served.opts.verbose # Served.before[1].opts.verbose
  /\ Served.hit

(***************************************************************************)
(* C3: under auto, when the source of the document was modified after the  *)
(* entry was stored, the lookup is absent and the document is executed     *)
(* again.                                                                  *)
(***************************************************************************)
AutoModifiedExecutes ==
  (HadEntry /\ Served.policy = "auto"
     /\ Served.before[1].version # Served.version) =>
    /\ ~Served.hit
    /\ Served.result = ExecuteResult(Served.doc, Served.version, Served.opts)
    /\ Served.result # Served.before[1].result

AutoModifiedWitness ==
  /\ HadEntry /\ Served.policy = "auto"
  /\ Served.before[1].version # Served.version
  /\ Served.before[1].opts = Served.opts
  /\ ~Served.hit

(***************************************************************************)
(* C4: under always, when an entry exists for the document and format, a   *)
(* request made after the source was modified uses the frozen result       *)
(* unchanged and executes nothing.                                         *)
(***************************************************************************)
AlwaysUsesFrozen ==
  (HadEntry /\ Served.policy = "always") =>
    /\ Served.hit
    /\ Served.result = Served.before[1].result

AlwaysModifiedWitness ==
  /\ HadEntry /\ Served.policy = "always"
  /\ Served.before[1].version # Served.version
  /\ Served.hit
  /\ Served.result # ExecuteResult(Served.doc, Served.version, Served.opts)

(***************************************************************************)
(* C5: under never the lookup is absent for every fingerprint whatever the *)
(* freezer holds, and every request executes, also when a matching entry   *)
(* of an earlier build exists.                                             *)
(***************************************************************************)
NeverAlwaysExecutes ==
  /\ \A p \in Pairs : \A v \in Versions : \A o \in FormatOptions :
       Lookup(freezer, p[1], p[2], Fingerprint(v, o), "never") = << >>
  /\ (lastRequest # << >> /\ Served.policy = "never") =>
       /\ ~Served.hit
       /\ Served.result = ExecuteResult(Served.doc, Served.version, Served.opts)

NeverMatchingWitness ==
  /\ HadEntry /\ Served.policy = "never"
  /\ SourceUnchanged
  /\ freezer[<<Served.doc, Served.format>>] # << >>
  /\ ~Served.hit

(***************************************************************************)
(* C14: a store of the freezer is atomic for readers and across crashes.   *)
(* At every point of a store, also after a crash between its steps, a      *)
(* lookup of the slot under any policy and fingerprint yields a result     *)
(* only from a complete entry, and a step of the store either leaves what  *)
(* every lookup of the slot yields as it was or, being the rename,         *)
(* replaces the slot by the complete staged entry.                         *)
(***************************************************************************)
\* what the lookups of a slot yield, for every policy and source version
Observations(fz, p) ==
  [pol \in Policies, v \in Versions |->
     Lookup(fz, p[1], p[2], Fingerprint(v, options[p[2]]), pol)]

ReadersSeeCompleteEntries ==
  \A p \in Pairs : \A pol \in Policies : \A v \in Versions :
    Observations(freezer, p)[pol, v] # << >> =>
      /\ freezer[p] # << >>
      /\ freezer[p][1].resources = ResourceFiles(freezer[p][1].result)
      /\ Observations(freezer, p)[pol, v] = <<freezer[p][1].result>>
      /\ \E stored \in Versions :
           /\ freezer[p][1].result = ExecuteResult(p[1], stored, options[p[2]])
           /\ freezer[p][1].fingerprint = Fingerprint(stored, options[p[2]])

StoreStepsAreInvisible ==
  \A p \in Pairs :
    staging'[p] # staging[p] =>
      \/ Observations(freezer', p) = Observations(freezer, p)
      \/ /\ staging'[p] = << >>
         /\ staging[p][1].resources = ResourceFiles(staging[p][1].result)
         /\ freezer'[p] = staging[p]

StoreIsAtomic ==
  []ReadersSeeCompleteEntries /\ [][StoreStepsAreInvisible]_vars

\* a store over the entry of an earlier build is half way: a reader under
\* always still gets the complete earlier entry
HalfWrittenStoreWitness ==
  \E p \in Pairs :
    /\ staging[p] # << >> /\ freezer[p] # << >>
    /\ staging[p][1].resources # {}
    /\ staging[p][1].resources # ResourceFiles(staging[p][1].result)
    /\ freezer[p][1].result # staging[p][1].result
    /\ Lookup(freezer, p[1], p[2], staging[p][1].fingerprint, "always")
         = <<freezer[p][1].result>>

(***************************************************************************)
(* C15: an entry of the freezer that cannot be read (a resource file of    *)
(* it was deleted from outside) is a miss: the request does not fail, the  *)
(* document is executed again and, under a policy that stores, the entry   *)
(* is overwritten by the complete entry of the new result.                 *)
(***************************************************************************)
\* the slot of the last request held an entry that could not be read
ServedCorrupt ==
  /\ lastRequest # << >>
  /\ Served.slot # << >>
  /\ Served.slot[1].resources # ResourceFiles(Served.slot[1].result)

CorruptIsMiss ==
  ServedCorrupt =>
    /\ ~Served.hit
    /\ Served.result = ExecuteResult(Served.doc, Served.version, Served.opts)

CorruptIsOverwritten ==
  \A p \in Pairs :
    (freezer[p] # << >>
       /\ freezer[p][1].resources # ResourceFiles(freezer[p][1].result)) =>
      /\ (lastRequest' # lastRequest /\ policy # "never"
            /\ lastRequest'[1].doc = p[1] /\ lastRequest'[1].format = p[2]) =>
           staging'[p] =
             << Entry(Fingerprint(content[p[1]], options[p[2]]),
                      ExecuteResult(p[1], content[p[1]], options[p[2]]), {}) >>
      /\ (staging[p] # << >> /\ staging'[p] = << >> /\ freezer'[p] # freezer[p]) =>
           /\ freezer'[p][1].result = staging[p][1].result
           /\ freezer'[p][1].resources = ResourceFiles(staging[p][1].result)

CorruptEntryIsMiss == []CorruptIsMiss /\ [][CorruptIsOverwritten]_vars

\* under always the entry whose resource file was deleted was replaced by
\* the entry of the new execution
CorruptOverwrittenWitness ==
  /\ ServedCorrupt /\ Served.policy = "always"
  /\ staging[<<Served.doc, Served.format>>] = << >>
  /\ freezer[<<Served.doc, Served.format>>]
       = << Entry(Fingerprint(Served.version, Served.opts), Served.result,
                  ResourceFiles(Served.result)) >>
  /\ Served.result # Served.slot[1].result

(***************************************************************************)
(* C16: merging is idempotent.  Two runs of mergeExecutedFiles over the    *)
(* same book items and the same executed files yield the same merged       *)
(* markdown, the same supporting list and the same filters, and a run      *)
(* leaves the executed files it was given as they were.                    *)
(***************************************************************************)
SecondMergeIsSame ==
  \A i, j \in 1..Len(merges.runs) :
    /\ merges.runs[i].threw = merges.runs[j].threw
    /\ merges.runs[i].executedFile.executeResult.markdown
         = merges.runs[j].executedFile.executeResult.markdown
    /\ merges.runs[i].executedFile.executeResult.supporting
         = merges.runs[j].executedFile.executeResult.supporting
    /\ merges.runs[i].executedFile.executeResult.filters
         = merges.runs[j].executedFile.executeResult.filters

MergeKeepsInputs == merges' # merges => files' = files

MergeIsIdempotent == []SecondMergeIsSame /\ [][MergeKeepsInputs]_vars

\* three files recorded out of book order were merged twice
MergedTwiceWitness ==
  /\ Len(merges.runs) = 2
  /\ ~merges.runs[2].threw
  /\ Len(files["pdf"]) = 3
  /\ files["pdf"][1].input = join(ProjectDir, ApxFile)
  /\ Len(merges.runs[2].executedFile.executeResult.supporting) >= 2
  /\ Len(merges.runs[2].executedFile.executeResult.filters) = 2

(***************************************************************************)
(* C17: onBeforeExecute(format) returns resolveDependencies = true exactly *)
(* when the book extension of the format has renderFile: every executed    *)
(* file carries the flag of its format, every file that onComplete hands   *)
(* to renderFile was executed with true, and every file that went into a   *)
(* merged document was executed with false.                                *)
(***************************************************************************)
\* the cleanup calls made after a merged document was rendered
MergedCleanups ==
  {i \in LogIndexes("cleanup") : log[i].finalOutput # log[i].file.output}

ResolveDependenciesIffRenderFile ==
  /\ \A file \in inflight :
       file.resolveDependencies <=> HasRenderFile(file.format)
  /\ \A f \in Formats : \A i \in 1..Len(files[f]) :
       files[f][i].resolveDependencies <=> HasRenderFile(f)
  /\ \A i \in LogIndexes("renderFile") : log[i].file.resolveDependencies
  /\ \A i \in MergedCleanups : ~log[i].file.resolveDependencies

\* one format was rendered a file at a time, the other was merged
BothRenderPathsWitness ==
  /\ Done
  /\ \E i \in LogIndexes("renderFile") :
       log[i].ok /\ log[i].file.resolveDependencies
  /\ \E i \in MergedCleanups : ~log[i].file.resolveDependencies

(***************************************************************************)
(* C18: the dependency declarations of the merged document are those of    *)
(* every merged result concatenated, duplicates retained, with the         *)
(* dependencies of an earlier chapter of the book before those of a later  *)
(* one, whatever the order in which the results were recorded.             *)
(***************************************************************************)
\* the dependencies of the files of a set, concatenated in book order
RECURSIVE BookOrderDependencies(_, _)
BookOrderDependencies(fileSet, i) ==
  IF i > Len(BookItems) THEN << >>
  ELSE (IF BookItems[i].file = NoFile THEN << >>
        ELSE DependencyData(CHOOSE f \in fileSet :
                              f.input = join(ProjectDir, BookItems[i].file)))
       \o BookOrderDependencies(fileSet, i + 1)

MergedDependenciesInBookOrder ==
  \A i \in LogIndexes("renderPandoc") :
    log[i].ok =>
      log[i].file.executeResult.dependencies[1].data
        = BookOrderDependencies(CleanedFiles(log[i].file.format), 1)

(***************************************************************************)
(* C19: the fragments of the book items in the merged markdown.            *)
(***************************************************************************)
\* the merged markdowns of the runs that did not throw
MergedMarkdowns ==
  {merges.runs[k].executedFile.executeResult.markdown :
     k \in {n \in 1..Len(merges.runs) : ~merges.runs[n].threw}}

\* the metadata marker of an item
MarkerOf(item) ==
  <<"quarto-file-metadata", item.type,
    IF Len(item.file) <= 1 THEN <<".">>
    ELSE SubSeq(item.file, 1, Len(item.file) - 1)>>

\* the first token of the body of an item: its heading, or the markdown of
\* its document
IsBodyOf(token, item) ==
  IF item.file = NoFile
  THEN token = <<"heading", item.text, "">>
  ELSE token[1] = "markdown" /\ token[2] = item.file

\* the fragment of the item is in md at k: its marker then its body; it is
\* wrapped when the div opens right before it and closes right after it
FragmentAt(md, k, item) ==
  k + 1 <= Len(md) /\ md[k] = MarkerOf(item) /\ IsBodyOf(md[k + 1], item)

WrappedAt(md, k) ==
  /\ k > 1 /\ md[k - 1] = BookPartOpen
  /\ k + 2 <= Len(md) /\ md[k + 2] = BookPartClose

BareAt(md, k) ==
  /\ k = 1 \/ md[k - 1] # BookPartOpen
  /\ k + 2 > Len(md) \/ md[k + 2] # BookPartClose

\* the items that get a fragment: those with a document, parts, appendices
HasFragment(item) ==
  item.file # NoFile \/ item.type \in {"part", "appendix"}

\* C19 as stated: a part or an appendix without a document gets its marker
\* and a heading of its text, wrapped in the .quarto-book-part div; the
\* fragment of an item with a document is not wrapped
StructuralItemsAreWrapped ==
  \A md \in MergedMarkdowns : \A n \in 1..Len(merges.items) :
    HasFragment(merges.items[n]) =>
      \E k \in 1..Len(md) :
        /\ FragmentAt(md, k, merges.items[n])
        /\ IF merges.items[n].file = NoFile
           THEN WrappedAt(md, k) ELSE BareAt(md, k)

\* C19 as amended: a part or an appendix without a document gets its marker
\* and a heading of its text; the fragment of an item of type part is
\* wrapped in the .quarto-book-part div, also when the part has a document
\* (the div then holds its marker and the markdown of the document); the
\* fragment of an appendix and of every other item is not wrapped
PartItemsAreWrapped ==
  \A md \in MergedMarkdowns :
    /\ \A n \in 1..Len(merges.items) :
         HasFragment(merges.items[n]) =>
           \E k \in 1..Len(md) :
             /\ FragmentAt(md, k, merges.items[n])
             /\ IF merges.items[n].type = "part"
                THEN WrappedAt(md, k) ELSE BareAt(md, k)
    /\ Cardinality({k \in 1..Len(md) : md[k] = BookPartOpen})
         = Cardinality({n \in 1..Len(merges.items) :
                          merges.items[n].type = "part"})

\* a merge of the book whose part has a document: the part is wrapped with
\* its document, the appendix heading stands bare
PartWithDocumentWitness ==
  /\ merges.items = BookItemsPartFile
  /\ \E md \in MergedMarkdowns : \E k \in 1..Len(md) :
       /\ FragmentAt(md, k, BookItemsPartFile[2]) /\ WrappedAt(md, k)
       /\ FragmentAt(md, k + 3, BookItemsPartFile[3]) /\ BareAt(md, k + 3)

(***************************************************************************)
(* C20: the title, subtitle, author and date of the merged document are    *)
(* those of the book configuration, never those of a chapter: for every    *)
(* one of these keys, also one that the book configuration does not set,   *)
(* the merged document handed to renderPandoc has the value of the book    *)
(* configuration.                                                          *)
(***************************************************************************)
TitleKeys == {"title", "subtitle", "author", "date"}

MergedTitleFromBookConfig ==
  \A i \in LogIndexes("renderPandoc") : \A key \in TitleKeys :
    log[i].file.metadata[key] = bookConfig(key)

(***************************************************************************)
(* C21: the merged preserve map is the union of the preserve maps of the   *)
(* merged results; when two results define one key the merge does not      *)
(* fail, the value of the result merged last is kept, and the collision is *)
(* reported as a warning.                                                  *)
(***************************************************************************)
\* the positions of the files of the bucket that define a key
Definers(key) ==
  {i \in 1..Len(files["pdf"]) :
     key \in DOMAIN files["pdf"][i].executeResult.preserve}

PreserveKeys == UNION {DOMAIN files["pdf"][i].executeResult.preserve :
                         i \in 1..Len(files["pdf"])}

PreserveUnionWithWarning ==
  \A k \in 1..Len(merges.runs) :
    ~merges.runs[k].threw =>
      LET preserve == merges.runs[k].executedFile.executeResult.preserve
      IN /\ DOMAIN preserve = PreserveKeys
         /\ \A key \in PreserveKeys :
              /\ \E i \in Definers(key) :
                   /\ \A j \in Definers(key) : j <= i
                   /\ preserve[key] = files["pdf"][i].executeResult.preserve[key]
              /\ Cardinality(Definers(key)) > 1 => merges.runs[k].warnings # << >>

(***************************************************************************)
(* C22: the merged supporting list holds every supporting path of every    *)
(* merged result, relative to the directory of the book, and holds each    *)
(* such path once, also when two chapters list the same resource.          *)
(***************************************************************************)
\* the supporting paths of the files of the bucket without the leading
\* directory of the book
RelativeSupporting ==
  UNION {{Tail(files["pdf"][i].executeResult.supporting[n]) :
            n \in 1..Len(files["pdf"][i].executeResult.supporting)} :
         i \in 1..Len(files["pdf"])}

SupportingMergedOnce ==
  \A k \in 1..Len(merges.runs) :
    ~merges.runs[k].threw =>
      LET supporting == merges.runs[k].executedFile.executeResult.supporting
      IN /\ {supporting[n] : n \in 1..Len(supporting)} = RelativeSupporting
         /\ Len(supporting) = Cardinality(RelativeSupporting)

\* two chapters that both list shared.css were merged
SharedResourceWitness ==
  /\ Len(merges.runs) >= 1 /\ ~merges.runs[1].threw
  /\ Cardinality({i \in 1..Len(files["pdf"]) :
        \E n \in 1..Len(files["pdf"][i].executeResult.supporting) :
          files["pdf"][i].executeResult.supporting[n] = SharedResource}) = 2
  /\ Len(merges.runs[1].executedFile.executeResult.supporting) = 3
  /\ \E n \in 1..3 :
       merges.runs[1].executedFile.executeResult.supporting[n] = <<"shared.css">>

(***************************************************************************)
(* The multi-file path on its own: the executed files of one format that   *)
(* renders a file at a time have been recorded, and onComplete renders     *)
(* them; a render call may throw.                                          *)
(***************************************************************************)
\* the formats whose extension renders a file at a time
MultiFormats == {"html", "asciidoc"}

InitMulti ==
  /\ policy = "never"
  /\ content \in [Docs -> Versions]
  /\ options = DefaultOptions
  /\ freezer = EmptyFreezer
  /\ disk = {}
  /\ phase = "collecting"
  /\ \E docs \in Recordings, format \in MultiFormats :
       /\ requested = {<<docs[i], format>> : i \in 1..Len(docs)}
       /\ fileKeys = <<format>>
       /\ files = [f \in {format} |->
                     [i \in 1..Len(docs) |->
                        ExecutedFile(docs[i], format,
                          ExecuteResult(docs[i], content[docs[i]],
                                        DefaultOptions["html"]))]]
  /\ executed = requested
  /\ inflight = {}
  /\ hadError = FALSE
  /\ log = << >>
  /\ result = << >>
  /\ frozenFrom = [p \in Pairs |-> << >>]
  /\ lastRequest = << >>
  /\ steps = 0
  /\ staging = [p \in Pairs |-> << >>]
  /\ merges = [items |-> BookItems, runs |-> << >>]
  /\ SideInit

NextMulti == \E failAt \in 0..MaxCalls : OnComplete(failAt)

SpecMulti == InitMulti /\ [][NextMulti]_vars

(***************************************************************************)
(* C23: the metadata of the files handed to extension.renderFile.          *)
(***************************************************************************)
\* the files handed to extension.renderFile, in call order
RenderFileCalls ==
  LET calls == SelectSeq(log, LAMBDA e : e.op = "renderFile")
  IN [i \in 1..Len(calls) |-> calls[i].file]

DocOf(file) == relative(ProjectDir, file.input)

\* the place of a document in the book items
ItemIndex(doc) == CHOOSE k \in 1..Len(BookItems) : BookItems[k].file = doc

\* the number of documents other than the index up to a document, in book
\* order
PositionOf(doc) ==
  Cardinality({k \in 1..ItemIndex(doc) :
                 BookItems[k].file # NoFile /\ BookItems[k].type # "index"})

IndexGetsBookTitle(file) ==
  /\ file.metadata.chapterNumber = << >>
  /\ file.metadata.title = bookConfig("title")

\* C23 as stated: in the multi-file path the index page is never given a
\* chapter number or chapter-title metadata (it gets the book-level title),
\* and every other document gets a chapter number derived from its position
\* in book order and, when it has a first heading, a title derived from that
\* heading, for every format that renders a file at a time
EveryChapterIsNumbered ==
  \A i \in 1..Len(RenderFileCalls) :
    IF DocOf(RenderFileCalls[i]) = IndexFile
    THEN IndexGetsBookTitle(RenderFileCalls[i])
    ELSE /\ RenderFileCalls[i].metadata.chapterNumber
              = <<PositionOf(DocOf(RenderFileCalls[i]))>>
         /\ HeadingText(DocOf(RenderFileCalls[i])) # None =>
              RenderFileCalls[i].metadata.title
                = HeadingText(DocOf(RenderFileCalls[i]))

\* C23 as amended: in the multi-file path the index page is never given a
\* chapter number or chapter-title metadata (it gets the book-level title and
\* no table of contents); every other document that has a first heading gets
\* a title derived from that heading together with a chapter number, which is
\* derived from its position in book order when the format is HTML output
\* and is 0 otherwise; a document without a first heading keeps its own
\* title and gets no chapter number
HeadedChaptersAreNumbered ==
  \A i \in 1..Len(RenderFileCalls) :
    IF DocOf(RenderFileCalls[i]) = IndexFile
    THEN /\ IndexGetsBookTitle(RenderFileCalls[i])
         /\ ~RenderFileCalls[i].metadata.toc
    ELSE IF HeadingText(DocOf(RenderFileCalls[i])) # None
    THEN /\ RenderFileCalls[i].metadata.title
              = HeadingText(DocOf(RenderFileCalls[i]))
         /\ RenderFileCalls[i].metadata.chapterNumber
              = << IF RenderFileCalls[i].format = "html"
                   THEN PositionOf(DocOf(RenderFileCalls[i])) ELSE 0 >>
    ELSE /\ RenderFileCalls[i].metadata.title
              = ChapterMetadata(DocOf(RenderFileCalls[i])).title
         /\ RenderFileCalls[i].metadata.chapterNumber = << >>

\* every document of the book was handed to renderFile, for a format that is
\* not HTML output
NumberedChaptersWitness ==
  /\ phase = "done" /\ result # << >> /\ ~result[1].error
  /\ {DocOf(RenderFileCalls[i]) : i \in 1..Len(RenderFileCalls)} = Docs
  /\ \A i \in 1..Len(RenderFileCalls) : RenderFileCalls[i].format = "asciidoc"

(***************************************************************************)
(* C24: on a successful merged render the cleanup of every accumulated     *)
(* executed file of the format runs once, after renderPandoc has returned; *)
(* when renderPandoc fails this cleanup runs for none of them.             *)
(***************************************************************************)
\* the calls of renderPandoc that returned
PandocReturned == {j \in LogIndexes("renderPandoc") : log[j].ok}

\* the cleanup calls that renderSingleFileBook made for a document
MergedCleanupsOf(doc) ==
  {i \in MergedCleanups : log[i].file.input = join(ProjectDir, doc)}

CleanupFollowsMergedRender ==
  /\ \A i \in MergedCleanups :
       \E j \in PandocReturned :
         /\ j < i
         /\ log[i].finalOutput = join(ProjectDir, log[j].file.output)
         /\ log[i].file.format = log[j].file.format
  /\ PandocReturned # {} =>
       \A d \in Docs :
         Cardinality(MergedCleanupsOf(d))
           = IF d \in RecordedDocs("pdf") THEN 1 ELSE 0
  /\ PandocReturned = {} => MergedCleanups = {}

\* the merged document of the whole book was rendered and its executed
\* files were cleaned up
MergedCleanupWitness ==
  /\ Done /\ ~Returned.error
  /\ PandocReturned # {}
  /\ \A d \in Docs : MergedCleanupsOf(d) # {}

(***************************************************************************)
(* C25: producing a book-level or chapter-level variant of a format        *)
(* creates a new value: the merge and the finalization of a chapter leave  *)
(* the format and the execution result of every executed file held by the  *)
(* accumulation buckets as they were recorded (a bucket changes only by    *)
(* being removed once its format is rendered).                             *)
(***************************************************************************)
FinalizationKeepsBuckets ==
  (phase = "collecting" /\ phase' = "done") =>
    /\ \A f \in Formats : files'[f] = << >> \/ files'[f] = files[f]
    /\ \A i \in 1..Len(log') :
         (log'[i].op = "cleanup" /\ ~HasRenderFile(log'[i].file.format)) =>
           \E k \in 1..Len(files[log'[i].file.format]) :
             files[log'[i].file.format][k] = log'[i].file

BucketEntriesAreImmutable == [][FinalizationKeepsBuckets]_vars

(***************************************************************************)
(* C26: the failure cleanup of onComplete (cleanupExecutedFiles) is        *)
(* applied at most once to each accumulated executed file and never to a   *)
(* file that has gone all the way through rendering; after a successful    *)
(* onComplete the accumulation map is empty.                               *)
(***************************************************************************)
\* the cleanup calls made by cleanupExecutedFiles
FailureCleanups == LogIndexes("cleanup") \ MergedCleanups

SameFile(a, b) == a.input = b.input /\ a.format = b.format

\* the render of the file had returned: its own renderFile call, or the
\* renderPandoc call for the merged document of its format
WentThroughRendering(file) ==
  \E j \in LogIndexes("renderFile") \cup LogIndexes("renderPandoc") :
    /\ log[j].ok
    /\ IF log[j].op = "renderFile" THEN SameFile(log[j].file, file)
       ELSE log[j].file.format = file.format

FailureCleanupAtMostOnce ==
  \A i, j \in FailureCleanups : SameFile(log[i].file, log[j].file) => i = j

SuccessLeavesNoBucket ==
  (Done /\ ~hadError /\ ~Returned.error) =>
    /\ fileKeys = << >>
    /\ \A f \in Formats : files[f] = << >>
    /\ FailureCleanups = {}

FailureCleanupSkipsRendered ==
  /\ FailureCleanupAtMostOnce
  /\ SuccessLeavesNoBucket
  /\ \A i \in FailureCleanups : ~WentThroughRendering(log[i].file)

(***************************************************************************)
(* definitions.ts: calls of the functions returned by defineCached, of     *)
(* loadSchemaDefinitions and of define, interleaved at their awaits.       *)
(***************************************************************************)
buildVars == <<policy, content, options, freezer, disk, phase, requested,
               executed, inflight, hadError, fileKeys, files, log, result,
               freezeVars, merges>>

hasSchemaDefinition(id) == definitions[id] # << >>

getSchemaDefinition(id) == definitions[id][Len(definitions[id])].schema

\* setSchemaDefinition(schema), recorded with the function that called it
setSchemaDefinition(defs, schema, by) ==
  [defs EXCEPT ![schema.id] = Append(@, [schema |-> schema, by |-> by])]

idSchema(schema, id) == [schema EXCEPT !.id = id]

refSchema(id, description) == [ref |-> id, description |-> description]

\* the schema that the thunk of a function builds
ThunkSchema(closure) == [id |-> ThunkId(closure), description |-> None]

\* return refSchema(schema!.$id, schema!.description || ...): reading $id of
\* an unset schema variable throws
ReturnReference(schemaVar) ==
  IF schemaVar = << >>
  THEN [threw |-> TRUE, ref |-> << >>]
  ELSE [threw |-> FALSE,
        ref |-> << refSchema(schemaVar[1].id,
                             IF schemaVar[1].description # None
                             THEN schemaVar[1].description
                             ELSE "be a {schema['$id']}") >>]

\* a call of a function returned by defineCached, up to its first await
CallCached(c, f) ==
  /\ callers[c].pc = "idle"
  /\ IF hasSchemaDefinition(SchemaIdOf(f))
     THEN /\ cached' = [cached EXCEPT
                          ![f] = <<getSchemaDefinition(SchemaIdOf(f))>>]
          /\ callers' = [callers EXCEPT ![c] =
               [pc |-> "done", closure |-> f, schema |-> << >>,
                outcome |-> ReturnReference(
                              <<getSchemaDefinition(SchemaIdOf(f))>>)]]
     ELSE /\ cached' = cached
          /\ callers' = [callers EXCEPT ![c] =
               [pc |-> "ensureAjv", closure |-> f, schema |-> << >>,
                outcome |-> << >>]]
  /\ UNCHANGED <<buildVars, analytics, definitions, thunks, loader, definer>>

\* the call resumes after await ensureAjv(): the second check
AfterEnsureAjv(c) ==
  /\ callers[c].pc = "ensureAjv"
  /\ IF ~hasSchemaDefinition(SchemaIdOf(callers[c].closure))
     THEN /\ thunks' = [thunks EXCEPT ![callers[c].closure] = @ + 1]
          /\ callers' = [callers EXCEPT ![c].pc = "thunk"]
     ELSE /\ thunks' = thunks
          /\ callers' = [callers EXCEPT
               ![c].pc = "done",
               ![c].outcome = ReturnReference(cached[callers[c].closure])]
  /\ UNCHANGED <<buildVars, analytics, definitions, cached, loader, definer>>

\* the call resumes after await thunk(): the schema variable is assigned
\* and define(schema) runs up to its await ensureAjv()
ThunkReturns(c) ==
  /\ callers[c].pc = "thunk"
  /\ \E schema \in {IF SchemaIdOf(callers[c].closure)
                         # ThunkSchema(callers[c].closure).id
                    THEN idSchema(ThunkSchema(callers[c].closure),
                                  SchemaIdOf(callers[c].closure))
                    ELSE ThunkSchema(callers[c].closure)} :
       /\ cached' = [cached EXCEPT ![callers[c].closure] = <<schema>>]
       /\ callers' = [callers EXCEPT ![c].pc = "defineAjv",
                                     ![c].schema = <<schema>>]
  /\ UNCHANGED <<buildVars, analytics, definitions, thunks, loader, definer>>

\* define resumes after await ensureAjv(): the check of define
DefineAfterAjv(c) ==
  /\ callers[c].pc = "defineAjv"
  /\ callers' = [callers EXCEPT ![c].pc =
       IF ~hasSchemaDefinition(callers[c].schema[1].id)
       THEN "validator" ELSE "defined"]
  /\ UNCHANGED <<buildVars, analytics, definitions, cached, thunks, loader, definer>>

\* the callback given to withValidator runs
ValidatorRuns(c) ==
  /\ callers[c].pc = "validator"
  /\ definitions' = setSchemaDefinition(definitions, callers[c].schema[1],
                                        "defineCached")
  /\ callers' = [callers EXCEPT ![c].pc = "defined"]
  /\ UNCHANGED <<buildVars, analytics, cached, thunks, loader, definer>>

\* the call resumes after await define(schema) and returns
ReturnAfterDefine(c) ==
  /\ callers[c].pc = "defined"
  /\ callers' = [callers EXCEPT
       ![c].pc = "done",
       ![c].outcome = ReturnReference(cached[callers[c].closure])]
  /\ UNCHANGED <<buildVars, analytics, definitions, cached, thunks, loader, definer>>

\* loadSchemaDefinitions(file) up to its await ensureAjv()
LoadStart ==
  /\ loader.pc = "idle"
  /\ loader' = [loader EXCEPT !.pc = "ensureAjv"]
  /\ UNCHANGED <<buildVars, analytics, definitions, cached, thunks, callers, definer>>

\* every schema of the file is handed to withValidator
LoadAfterAjv ==
  /\ loader.pc = "ensureAjv"
  /\ loader' = [pc |-> "validators", pending |-> YamlIds]
  /\ UNCHANGED <<buildVars, analytics, definitions, cached, thunks, callers, definer>>

\* the callback given to withValidator runs for one schema of the file
LoadSet(id) ==
  /\ loader.pc = "validators"
  /\ id \in loader.pending
  /\ definitions' = setSchemaDefinition(definitions,
                      [id |-> id, description |-> None],
                      "loadSchemaDefinitions")
  /\ loader' = [pc |-> IF loader.pending = {id} THEN "done" ELSE "validators",
                pending |-> loader.pending \ {id}]
  /\ UNCHANGED <<buildVars, analytics, cached, thunks, callers, definer>>

\* define(schema) called on its own, up to its await ensureAjv()
DefineStart(id) ==
  /\ definer.pc = "idle"
  /\ definer' = [pc |-> "ensureAjv",
                 schema |-> <<[id |-> id, description |-> "a schema"]>>]
  /\ UNCHANGED <<buildVars, analytics, definitions, cached, thunks, callers, loader>>

DefinerAfterAjv ==
  /\ definer.pc = "ensureAjv"
  /\ definer' = [definer EXCEPT !.pc =
       IF ~hasSchemaDefinition(definer.schema[1].id)
       THEN "validator" ELSE "done"]
  /\ UNCHANGED <<buildVars, analytics, definitions, cached, thunks, callers, loader>>

DefinerSet ==
  /\ definer.pc = "validator"
  /\ definitions' = setSchemaDefinition(definitions, definer.schema[1],
                                        "define")
  /\ definer' = [definer EXCEPT !.pc = "done"]
  /\ UNCHANGED <<buildVars, analytics, cached, thunks, callers, loader>>

InitDefine == Init /\ policy = "never" /\ freezer = EmptyFreezer

NextDefine ==
  \/ \E c \in Callers, f \in Closures : CallCached(c, f)
  \/ \E c \in Callers : AfterEnsureAjv(c)
  \/ \E c \in Callers : ThunkReturns(c)
  \/ \E c \in Callers : DefineAfterAjv(c)
  \/ \E c \in Callers : ValidatorRuns(c)
  \/ \E c \in Callers : ReturnAfterDefine(c)
  \/ LoadStart
  \/ LoadAfterAjv
  \/ \E id \in YamlIds : LoadSet(id)
  \/ \E id \in SchemaIds : DefineStart(id)
  \/ DefinerAfterAjv
  \/ DefinerSet

SpecDefine == InitDefine /\ [][NextDefine]_vars

(***************************************************************************)
(* C27: for any interleaving of concurrent calls of functions returned by  *)
(* defineCached for the same schemaId, the thunk that builds the schema is *)
(* invoked at most once and the definition for that id is set at most once *)
(* by them.                                                                *)
(***************************************************************************)
RECURSIVE SumOver(_, _)
SumOver(counts, keys) ==
  IF keys = {} THEN 0
  ELSE LET k == CHOOSE x \in keys : TRUE
       IN counts[k] + SumOver(counts, keys \ {k})

\* the number of thunk invocations of the functions made for an id
ThunkCalls(id) == SumOver(thunks, {f \in Closures : SchemaIdOf(f) = id})

\* the calls of setSchemaDefinition for an id made through defineCached
CachedSets(id) ==
  {i \in 1..Len(definitions[id]) : definitions[id][i].by = "defineCached"}

ThunkAndDefinitionOnce ==
  \A id \in SchemaIds :
    /\ ThunkCalls(id) <= 1
    /\ Cardinality(CachedSets(id)) <= 1

(***************************************************************************)
(* C28: whenever a call of a function returned by defineCached(thunk,      *)
(* schemaId) completes, it returns a reference whose id is schemaId and a  *)
(* definition for schemaId is registered; it never fails on an unset       *)
(* schema variable.                                                        *)
(***************************************************************************)
CompletedCallReturnsReference ==
  \A c \in Callers :
    callers[c].pc = "done" =>
      /\ ~callers[c].outcome.threw
      /\ callers[c].outcome.ref[1].ref = SchemaIdOf(callers[c].closure)
      /\ hasSchemaDefinition(SchemaIdOf(callers[c].closure))

(***************************************************************************)
(* website-analytics.ts: the script generated for Google Analytics.  A     *)
(* script is the sequence of its script elements; an element is its type   *)
(* attribute (None: no type attribute), its cookie-consent attribute       *)
(* (<< >>: none), its src attribute and its contents.                      *)
(***************************************************************************)
\* tracking ids, as the prefix that versionForTrackingId looks at and the rest
TrackingIds == {<<"UA-", "12345">>, <<"G-", "ABCDE">>}

\* site: cookie-consent: unset, a boolean, or an object
CookieConsentValues == {"unset", "false", "true", "object"}

NoSiteGa ==
  [kind |-> "none", trackingId |-> << >>, storage |-> "unset",
   anonymizeIp |-> FALSE, version |-> 0]

\* site: google-analytics: unset, a tracking id, or an object of options
\* (storage "unset", version 0: not given)
SiteGaValues ==
  {NoSiteGa}
  \cup {[NoSiteGa EXCEPT !.kind = "string", !.trackingId = id] :
          id \in TrackingIds}
  \cup [kind : {"object"}, trackingId : TrackingIds,
        storage : {"unset", "none", "cookies"}, anonymizeIp : BOOLEAN,
        version : {0, 3, 4, 5}]

scriptTagWithConsent(consentRequired, consentlevel, contents) ==
  IF consentRequired
  THEN [type |-> "text/plain", consent |-> <<consentlevel>>, src |-> None,
        contents |-> contents]
  ELSE [type |-> "text/javascript", consent |-> << >>, src |-> None,
        contents |-> contents]

useCookieConsent(cookieConsent) == cookieConsent \in {"true", "object"}

versionForTrackingId(trackingId) == IF trackingId[1] = "UA-" THEN 3 ELSE 4

googleAnalyticsConfig(cookieConsent, trackingId, storage, anoymizeIp, version) ==
  [trackingId |-> trackingId,
   consent |-> useCookieConsent(cookieConsent),
   storage |-> IF storage # "unset" THEN storage ELSE "cookie",
   anonymizeIp |-> anoymizeIp,
   version |-> IF version # 0 THEN version
               ELSE versionForTrackingId(trackingId)]

ga3Script(config) ==
  << scriptTagWithConsent(config.consent, "tracking",
       << <<"analytics.js">>,
          <<"create", config.trackingId,
            IF config.storage = "none" THEN "storage none" ELSE "auto">>,
          <<"send", "pageview", config.anonymizeIp>> >>) >>

ga4Script(config) ==
  << [type |-> None, consent |-> << >>,
      src |-> "https://www.googletagmanager.com/gtag/js", contents |-> << >>],
     scriptTagWithConsent(config.consent, "tracking",
       << <<"dataLayer">>,
          <<"config", config.trackingId,
            IF config.storage = "none" THEN "client_storage none"
            ELSE "default",
            config.anonymizeIp>> >>) >>

\* << >>: undefined
analyticsScript(config) ==
  IF config.version = 3 THEN <<ga3Script(config)>>
  ELSE IF config.version = 4 THEN <<ga4Script(config)>>
  ELSE << >>

\* the script file written (<< >>: none): its text is the script
websiteAnalyticsScriptFile(siteGa, cookieConsent) ==
  IF siteGa.kind = "object"
  THEN analyticsScript(googleAnalyticsConfig(cookieConsent, siteGa.trackingId,
         siteGa.storage, siteGa.anonymizeIp, siteGa.version))
  ELSE IF siteGa.kind = "string"
  THEN analyticsScript(googleAnalyticsConfig(cookieConsent, siteGa.trackingId,
         "unset", FALSE, 0))
  ELSE << >>

\* websiteAnalyticsScriptFile(format) for the site metadata of a format
GenerateAnalytics(siteGa, cookieConsent) ==
  /\ analytics' = << [siteGa |-> siteGa, cookieConsent |-> cookieConsent,
                      scriptFile |->
                        websiteAnalyticsScriptFile(siteGa, cookieConsent)] >>
  /\ UNCHANGED <<buildVars, definitions, cached, thunks, callers, loader,
                 definer>>

NextAnalytics ==
  \E siteGa \in SiteGaValues, cookieConsent \in CookieConsentValues :
    GenerateAnalytics(siteGa, cookieConsent)

SpecAnalytics == InitDefine /\ [][NextAnalytics]_vars

(***************************************************************************)
(* C29: when the site enables cookie consent, every script element of the  *)
(* script generated for Google Analytics (version 3 and 4, any storage     *)
(* setting) is consent-gated: type text/plain with cookie-consent          *)
(* "tracking"; when cookie consent is not enabled the elements are plain   *)
(* JavaScript; for a version other than 3 or 4 no script file is produced. *)
(***************************************************************************)
\* the version asked for, or the one that the tracking id stands for
EffectiveVersion(siteGa) ==
  IF siteGa.version # 0 THEN siteGa.version
  ELSE IF siteGa.trackingId[1] = "UA-" THEN 3 ELSE 4

ConsentGated(tag) == tag.type = "text/plain" /\ tag.consent = <<"tracking">>

\* a script element without a type attribute is JavaScript as well
PlainJavascript(tag) ==
  tag.type \in {"text/javascript", None} /\ tag.consent = << >>

EveryScriptIsConsentGated ==
  (analytics # << >> /\ analytics[1].siteGa.kind # "none") =>
    IF EffectiveVersion(analytics[1].siteGa) \in {3, 4}
    THEN /\ analytics[1].scriptFile # << >>
         /\ \A i \in 1..Len(analytics[1].scriptFile[1]) :
              IF analytics[1].cookieConsent \in {"true", "object"}
              THEN ConsentGated(analytics[1].scriptFile[1][i])
              ELSE PlainJavascript(analytics[1].scriptFile[1][i])
    ELSE analytics[1].scriptFile = << >>

====
